---- MODULE Spec2Model ----
(***************************************************************************)
(* Interaction-list builder of boxtree (boxtree/traversal.py): the tree    *)
(* that FMMTraversalBuilder.__call__ consumes, the OpenCL kernels it       *)
(* launches stage by stage, and the FMMTraversalInfo it returns.           *)
(*                                                                         *)
(* Arrays are 0-based in the code and are modelled as sequences; At(a, i)  *)
(* reads a[i].  Coordinates are exact: root_extent is a power of two large *)
(* enough that every half box size of the model is an integer.             *)
(***************************************************************************)
EXTENDS Integers, Sequences, FiniteSets, TLC

\* ------------------------------------------------------------------ bounds
\* deepest level a tree of the model may have
MaxLevel == 3
\* largest number of boxes of an enumerated tree
MaxBoxes == 5
\* deepest level of the trees whose kernels run work item by work item
MaxLevelWI == 2
\* largest number of boxes of a tree of a dimension other than Dimensions
MaxBoxesOtherDim == 2
\* largest number of boxes of a tree whose walks run step by step
MaxBoxesWalk == 4

\* ------------------------------------------------------- program constants
Dimensions == 2
\* the deepest level of the model: the spine trees go one level deeper
DeepLevel == MaxLevel + 1
RootExtent == 2 ^ (DeepLevel + 1)

BOX_HAS_OWN_SOURCES == "HAS_OWN_SOURCES"
BOX_HAS_OWN_TARGETS == "HAS_OWN_TARGETS"
BOX_HAS_CHILD_SOURCES == "HAS_CHILD_SOURCES"
BOX_HAS_CHILD_TARGETS == "HAS_CHILD_TARGETS"
BOX_HAS_CHILDREN == "HAS_CHILDREN"

\* value of an array slot that was allocated and never written
Uninit == -1

\* ----------------------------------------------------------------- helpers
At(a, i) == a[i + 1]

Abs(x) == IF x < 0 THEN -x ELSE x

Max2(a, b) == IF a >= b THEN a ELSE b

Min2(a, b) == IF a <= b THEN a ELSE b

Range(s) == {s[i] : i \in DOMAIN s}

Count(s, x) == Cardinality({i \in DOMAIN s : s[i] = x})

Slice(a, start, stop) == SubSeq(a, start + 1, stop)

RECURSIVE ConcatAll(_, _)
ConcatAll(f, n) == IF n = 0 THEN <<>> ELSE ConcatAll(f, n - 1) \o f[n - 1]

RECURSIVE Starts(_, _)
Starts(f, n) ==
    IF n = 0 THEN <<0>>
    ELSE LET p == Starts(f, n - 1) IN Append(p, p[n] + Len(f[n - 1]))

\* pyopencl's ListOfListsBuilder as the builder uses it: generate runs once
\* per key 0..n-1, the emissions of key k land in lists[starts[k]:starts[k+1]]
ListOfLists(n, emitted) ==
    [starts |-> Starts(emitted, n), lists |-> ConcatAll(emitted, n), count |-> Len(ConcatAll(emitted, n))]

\* get_box_list that slices from the beginning of lists
get_box_list_to_stop(l, index) == Slice(l.lists, 0, At(l.starts, index + 1))

\* FMMTraversalInfo.get_box_list
get_box_list(l, index) == Slice(l.lists, At(l.starts, index), At(l.starts, index + 1))

\* ---------------------------------------------------------- the input tree
\* A box of a tree under construction is named by the morton numbers on the
\* way from the root to it, written as the digits m+1 of a number in base
\* 2^d + 1: the root is 0, and deeper or later boxes have larger names.
NChildren(d) == 2 ^ d

ChildName(d, c, m) == c * (NChildren(d) + 1) + m + 1

ParentName(d, c) == c \div (NChildren(d) + 1)

MortonOf(d, c) == (c % (NChildren(d) + 1)) - 1

RECURSIVE LevelOfName(_, _)
LevelOfName(d, c) == IF c = 0 THEN 0 ELSE 1 + LevelOfName(d, ParentName(d, c))

RECURSIVE IsAncestorOrSelf(_, _, _)
IsAncestorOrSelf(d, a, c) ==
    \/ a = c
    \/ c # 0 /\ IsAncestorOrSelf(d, a, ParentName(d, c))

\* boxes are sorted by level, and by tree order within a level
BoxIdOf(shape, c) == Cardinality({q \in shape : q < c})

NameOf(shape, id) == CHOOSE c \in shape : BoxIdOf(shape, c) = id

\* bit of axis i in a morton number
MortonBit(d, m, i) == (m \div (2 ^ (d - 1 - i))) % 2

\* child centers lie at parent center +- extent(child)/2 on every axis
RECURSIVE CenterOf(_, _, _)
CenterOf(d, c, i) ==
    IF c = 0 THEN 0
    ELSE LET half == RootExtent \div (2 ^ (LevelOfName(d, c) + 1))
         IN CenterOf(d, ParentName(d, c), i)
              + (IF MortonBit(d, MortonOf(d, c), i) = 1 THEN half ELSE -half)

MkFlags(d, shape, own_src, own_tgt, c) ==
    (IF c \in own_src THEN {BOX_HAS_OWN_SOURCES} ELSE {})
    \cup (IF c \in own_tgt THEN {BOX_HAS_OWN_TARGETS} ELSE {})
    \cup (IF \E q \in own_src : q # c /\ IsAncestorOrSelf(d, c, q)
             THEN {BOX_HAS_CHILD_SOURCES} ELSE {})
    \cup (IF \E q \in own_tgt : q # c /\ IsAncestorOrSelf(d, c, q)
             THEN {BOX_HAS_CHILD_TARGETS} ELSE {})
    \cup (IF \E q \in shape : q # c /\ IsAncestorOrSelf(d, c, q)
             THEN {BOX_HAS_CHILDREN} ELSE {})

\* the geometry and the links of the tree with the boxes of shape
MkGeometry(d, shape) ==
    LET n == Cardinality(shape)
        nl == 1 + CHOOSE l \in 0..DeepLevel :
                     /\ \E c \in shape : LevelOfName(d, c) = l
                     /\ \A c \in shape : LevelOfName(d, c) <= l
        name == [id \in 0..(n - 1) |-> NameOf(shape, id)]
    IN [dimensions |-> d,
        nboxes |-> n,
        aligned_nboxes |-> n,
        nlevels |-> nl,
        root_extent |-> RootExtent,
        box_centers |-> [k \in 1..(d * n) |->
                            CenterOf(d, name[(k - 1) % n], (k - 1) \div n)],
        box_levels |-> [k \in 1..n |-> LevelOfName(d, name[k - 1])],
        box_parent_ids |-> [k \in 1..n |-> BoxIdOf(shape, ParentName(d, name[k - 1]))],
        box_child_ids |-> [k \in 1..(NChildren(d) * n) |->
                            LET c == ChildName(d, name[(k - 1) % n], (k - 1) \div n)
                            IN IF c \in shape THEN BoxIdOf(shape, c) ELSE 0],
        level_start_box_nrs |-> [k \in 1..(nl + 1) |->
                            Cardinality({c \in shape : LevelOfName(d, c) < k - 1})],
        names |-> name]

\* the tree of that geometry whose boxes own_src carry sources and own_tgt targets
MkTree(geo, shape, own_src, own_tgt, s_a_t) ==
    [dimensions |-> geo.dimensions,
     nboxes |-> geo.nboxes,
     aligned_nboxes |-> geo.aligned_nboxes,
     nlevels |-> geo.nlevels,
     root_extent |-> geo.root_extent,
     box_centers |-> geo.box_centers,
     box_levels |-> geo.box_levels,
     box_parent_ids |-> geo.box_parent_ids,
     box_child_ids |-> geo.box_child_ids,
     level_start_box_nrs |-> geo.level_start_box_nrs,
     box_flags |-> [k \in 1..geo.nboxes |->
                        MkFlags(geo.dimensions, shape, own_src, own_tgt, geo.names[k - 1])],
     sources_are_targets |-> s_a_t,
     _is_pruned |-> TRUE]

\* the same tree as the tree builder hands it out before pruning
Unpruned(t) == [t EXCEPT !._is_pruned = FALSE]

Leaves(d, shape) ==
    {c \in shape : ~\E q \in shape : q # c /\ IsAncestorOrSelf(d, c, q)}

\* where the particles of a tree of the model are: sources and targets in
\* every leaf, or in every box, or one box of sources and targets everywhere
Particles(d, shape) ==
    {<<Leaves(d, shape), Leaves(d, shape), TRUE>>, <<shape, shape, TRUE>>}
    \cup {<<{b}, shape, FALSE>> : b \in shape}

\* the sets of at most k boxes closed under parents, no box deeper than
\* maxlev; a shape grows by a box that comes after all its boxes
RECURSIVE Shapes(_, _, _)
Shapes(d, k, maxlev) ==
    IF k <= 1 THEN {{0}}
    ELSE LET prev == Shapes(d, k - 1, maxlev)
         IN prev \cup UNION {
              {s \cup {c} :
                  c \in {x \in {ChildName(d, q, m) :
                                  q \in {r \in s : LevelOfName(d, r) < maxlev},
                                  m \in 0..(NChildren(d) - 1)} :
                          \A r \in s : r < x}}
              : s \in {t \in prev : Cardinality(t) = k - 1}}

RECURSIVE SpineOf(_, _, _)
SpineOf(d, ms, l) ==
    IF l = 0 THEN 0 ELSE ChildName(d, SpineOf(d, ms, l - 1), ms[l])

\* a chain of boxes from the root down to level DeepLevel, and one more
\* child of the root
SpineShapes(d) ==
    {{SpineOf(d, ms, l) : l \in 0..DeepLevel} \cup {ChildName(d, 0, m)} :
        ms \in [1..DeepLevel -> 0..(NChildren(d) - 1)], m \in 0..(NChildren(d) - 1)}

\* every box down to level depth
RECURSIVE GridShape(_, _)
GridShape(d, depth) ==
    IF depth = 0 THEN {0}
    ELSE LET g == GridShape(d, depth - 1)
         IN g \cup {ChildName(d, q, m) : q \in g, m \in 0..(NChildren(d) - 1)}

\* the root, its children, and the children of child 0
RefinedQuadrantShape(d) ==
    GridShape(d, 1) \cup {ChildName(d, ChildName(d, 0, 0), m) : m \in 0..(NChildren(d) - 1)}

\* the dimensions other than Dimensions a tree of the model may have
OtherDimensions == {1, 4}

\* ------------------------------------------------------ kernel preamble
\* NLEVELS, the size of the per-work-item walk stacks
MaxLevelsOf(t) == ((t.nlevels + 9) \div 10) * 10

load_center(t, box_id) ==
    [i \in 0..(t.dimensions - 1) |-> At(t.box_centers, t.aligned_nboxes * i + box_id)]

\* LEVEL_TO_SIZE that divides by four for every level
LEVEL_TO_SIZE_quartering(t, level) == t.root_extent \div (4 ^ level)

LEVEL_TO_SIZE(t, level) == t.root_extent \div (2 ^ level)

ChildOf(t, morton_nr, box_id) == At(t.box_child_ids, morton_nr * t.aligned_nboxes + box_id)

HasFlag(t, box_id, flag) == flag \in At(t.box_flags, box_id)

\* walk_init that starts one level up the stack
walk_init_at_level_one(t, start_box_id) ==
    [box_stack |-> [i \in 0..(MaxLevelsOf(t) - 1) |-> Uninit],
     morton_nr_stack |-> [i \in 0..(MaxLevelsOf(t) - 1) |-> Uninit],
     walk_level |-> 1,
     walk_box_id |-> start_box_id,
     walk_morton_nr |-> 0,
     continue_walk |-> TRUE]

walk_init(t, start_box_id) ==
    [box_stack |-> [i \in 0..(MaxLevelsOf(t) - 1) |-> Uninit],
     morton_nr_stack |-> [i \in 0..(MaxLevelsOf(t) - 1) |-> Uninit],
     walk_level |-> 0,
     walk_box_id |-> start_box_id,
     walk_morton_nr |-> 0,
     continue_walk |-> TRUE]

\* walk_advance that stops one child short
RECURSIVE walk_advance_short(_, _)
walk_advance_short(t, w) ==
    LET m == w.walk_morton_nr + 1 IN
    IF m < NChildren(t.dimensions) - 1
        THEN [w EXCEPT !.walk_morton_nr = m]
    ELSE IF w.walk_level > 0
        THEN walk_advance_short(t,
                [w EXCEPT !.continue_walk = TRUE,
                          !.walk_level = w.walk_level - 1,
                          !.walk_box_id = w.box_stack[w.walk_level - 1],
                          !.walk_morton_nr = w.morton_nr_stack[w.walk_level - 1]])
    ELSE [w EXCEPT !.walk_morton_nr = m, !.continue_walk = FALSE]

RECURSIVE walk_advance(_, _)
walk_advance(t, w) ==
    LET m == w.walk_morton_nr + 1 IN
    IF m < NChildren(t.dimensions)
        THEN [w EXCEPT !.walk_morton_nr = m]
    ELSE IF w.walk_level > 0
        THEN walk_advance(t,
                [w EXCEPT !.continue_walk = TRUE,
                          !.walk_level = w.walk_level - 1,
                          !.walk_box_id = w.box_stack[w.walk_level - 1],
                          !.walk_morton_nr = w.morton_nr_stack[w.walk_level - 1]])
    ELSE [w EXCEPT !.walk_morton_nr = m, !.continue_walk = FALSE]

\* walk_push followed by the descent into child_box_id that every walk does
walk_push(w, child_box_id) ==
    [w EXCEPT !.box_stack[w.walk_level] = w.walk_box_id,
              !.morton_nr_stack[w.walk_level] = w.walk_morton_nr,
              !.walk_level = w.walk_level + 1,
              !.walk_box_id = child_box_id,
              !.walk_morton_nr = 0]

\* ------------------------------------------------------- adjacency test
\* the adjacency test with the other box taken to be of the level of the first
AdjacentIgnoringOtherLevel(t, center, level, other_box_id) ==
    LET other_center == load_center(t, other_box_id)
        size_sum == (LEVEL_TO_SIZE(t, level) + LEVEL_TO_SIZE(t, level)) \div 2
        slack == size_sum + LEVEL_TO_SIZE(t, level) \div 2
        dists == {Abs(center[i] - other_center[i]) : i \in 0..(t.dimensions - 1)}
        max_dist == CHOOSE x \in dists : \A y \in dists : y <= x
    IN max_dist <= slack

\* the adjacency test with the slack of half the larger of the two boxes
AdjacentWithSlackOfLarger(t, center, level, other_box_id) ==
    LET other_center == load_center(t, other_box_id)
        other_level == At(t.box_levels, other_box_id)
        size_sum == (LEVEL_TO_SIZE(t, level) + LEVEL_TO_SIZE(t, other_level)) \div 2
        slack == size_sum + LEVEL_TO_SIZE(t, Min2(level, other_level)) \div 2
        dists == {Abs(center[i] - other_center[i]) : i \in 0..(t.dimensions - 1)}
        max_dist == CHOOSE x \in dists : \A y \in dists : y <= x
    IN max_dist <= slack

\* the adjacency test without slack and with a strict comparison
AdjacentStrictlyWithoutSlack(t, center, level, other_box_id) ==
    LET other_center == load_center(t, other_box_id)
        other_level == At(t.box_levels, other_box_id)
        size_sum == (LEVEL_TO_SIZE(t, level) + LEVEL_TO_SIZE(t, other_level)) \div 2
        dists == {Abs(center[i] - other_center[i]) : i \in 0..(t.dimensions - 1)}
        max_dist == CHOOSE x \in dists : \A y \in dists : y <= x
    IN max_dist < size_sum

is_adjacent_or_overlapping(t, center, level, other_box_id) ==
    LET other_center == load_center(t, other_box_id)
        other_level == At(t.box_levels, other_box_id)
        size_sum == (LEVEL_TO_SIZE(t, level) + LEVEL_TO_SIZE(t, other_level)) \div 2
        slack == size_sum + LEVEL_TO_SIZE(t, Max2(level, other_level)) \div 2
        dists == {Abs(center[i] - other_center[i]) : i \in 0..(t.dimensions - 1)}
        max_dist == CHOOSE x \in dists : \A y \in dists : y <= x
    IN max_dist <= slack

\* ------------------------------------- sources, their parents, targets
\* the kernel with HAS_CHILDREN tested in place of HAS_CHILD_SOURCES
SourcesParentsAndTargetsOfChildren(t, box_id) ==
    LET flags == At(t.box_flags, box_id) IN
    [source_boxes |-> IF BOX_HAS_OWN_SOURCES \in flags THEN <<box_id>> ELSE <<>>,
     source_parent_boxes |-> IF BOX_HAS_CHILDREN \in flags THEN <<box_id>> ELSE <<>>,
     target_boxes |-> IF ~t.sources_are_targets /\ BOX_HAS_OWN_TARGETS \in flags
                         THEN <<box_id>> ELSE <<>>]

SourcesParentsAndTargets_generate(t, box_id) ==
    LET flags == At(t.box_flags, box_id) IN
    [source_boxes |-> IF BOX_HAS_OWN_SOURCES \in flags THEN <<box_id>> ELSE <<>>,
     source_parent_boxes |-> IF BOX_HAS_CHILD_SOURCES \in flags THEN <<box_id>> ELSE <<>>,
     target_boxes |-> IF ~t.sources_are_targets /\ BOX_HAS_OWN_TARGETS \in flags
                         THEN <<box_id>> ELSE <<>>]

\* ------------------------------------------------------------ colleagues
\* the colleagues step without the test child_box_id != box_id
ColleaguesStepWithSelf(t, box_id, w, out) ==
    LET center == load_center(t, box_id)
        level == At(t.box_levels, box_id)
        child_box_id == ChildOf(t, w.walk_morton_nr, w.walk_box_id)
    IN IF child_box_id # 0 /\ is_adjacent_or_overlapping(t, center, level, child_box_id)
       THEN IF w.walk_level + 1 = level
            THEN [w |-> walk_advance(t, w), out |-> Append(out, child_box_id)]
            ELSE [w |-> walk_push(w, child_box_id), out |-> out]
       ELSE [w |-> walk_advance(t, w), out |-> out]

\* one iteration of the while loop of the colleagues kernel
ColleaguesStep(t, box_id, w, out) ==
    LET center == load_center(t, box_id)
        level == At(t.box_levels, box_id)
        child_box_id == ChildOf(t, w.walk_morton_nr, w.walk_box_id)
    IN IF child_box_id # 0 /\ is_adjacent_or_overlapping(t, center, level, child_box_id)
       THEN IF w.walk_level + 1 = level /\ child_box_id # box_id
            THEN [w |-> walk_advance(t, w), out |-> Append(out, child_box_id)]
            ELSE [w |-> walk_push(w, child_box_id), out |-> out]
       ELSE [w |-> walk_advance(t, w), out |-> out]

RECURSIVE ColleaguesWalk(_, _, _, _)
ColleaguesWalk(t, box_id, w, out) ==
    IF ~w.continue_walk THEN out
    ELSE LET r == ColleaguesStep(t, box_id, w, out)
         IN ColleaguesWalk(t, box_id, r.w, r.out)

Colleagues_generate(t, box_id) ==
    IF box_id = 0 THEN <<>>
    ELSE ColleaguesWalk(t, box_id, walk_init(t, 0), <<>>)

\* ------------------------------------------ neighbor source boxes, list 1
NeighborSourceBoxesStep(t, box_id, w, out) ==
    LET center == load_center(t, box_id)
        level == At(t.box_levels, box_id)
        child_box_id == ChildOf(t, w.walk_morton_nr, w.walk_box_id)
    IN IF child_box_id # 0 /\ is_adjacent_or_overlapping(t, center, level, child_box_id)
       THEN LET out1 == IF HasFlag(t, child_box_id, BOX_HAS_OWN_SOURCES)
                           THEN Append(out, child_box_id) ELSE out
            IN IF HasFlag(t, child_box_id, BOX_HAS_CHILD_SOURCES)
               THEN [w |-> walk_push(w, child_box_id), out |-> out1]
               ELSE [w |-> walk_advance(t, w), out |-> out1]
       ELSE [w |-> walk_advance(t, w), out |-> out]

RECURSIVE NeighborSourceBoxesWalk(_, _, _, _)
NeighborSourceBoxesWalk(t, box_id, w, out) ==
    IF ~w.continue_walk THEN out
    ELSE LET r == NeighborSourceBoxesStep(t, box_id, w, out)
         IN NeighborSourceBoxesWalk(t, box_id, r.w, r.out)

\* the list 1 kernel that tests the start box of its walk as well
NeighborSourceBoxesWithStartBox(t, tgt_boxes, target_box_number) ==
    NeighborSourceBoxesWalk(t, At(tgt_boxes, target_box_number), walk_init(t, 0),
        IF HasFlag(t, 0, BOX_HAS_OWN_SOURCES) THEN <<0>> ELSE <<>>)

NeighborSourceBoxes_generate(t, tgt_boxes, target_box_number) ==
    NeighborSourceBoxesWalk(t, At(tgt_boxes, target_box_number), walk_init(t, 0), <<>>)

\* --------------------------------------- well-separated siblings, list 2
\* the loop over the children that appends the adjacent ones
RECURSIVE SepSiblingsChildrenAdjacent(_, _, _, _, _)
SepSiblingsChildrenAdjacent(t, box_id, parent_colleague, morton_nr, out) ==
    IF morton_nr >= NChildren(t.dimensions) THEN out
    ELSE LET sib_box_id == ChildOf(t, morton_nr, parent_colleague)
             sep == is_adjacent_or_overlapping(t, load_center(t, box_id),
                        At(t.box_levels, box_id), sib_box_id)
         IN SepSiblingsChildrenAdjacent(t, box_id, parent_colleague, morton_nr + 1,
                IF sep THEN Append(out, sib_box_id) ELSE out)

\* the loop over the children of one colleague of the parent
RECURSIVE SepSiblingsChildren(_, _, _, _, _)
SepSiblingsChildren(t, box_id, parent_colleague, morton_nr, out) ==
    IF morton_nr >= NChildren(t.dimensions) THEN out
    ELSE LET sib_box_id == ChildOf(t, morton_nr, parent_colleague)
             sep == ~is_adjacent_or_overlapping(t, load_center(t, box_id),
                        At(t.box_levels, box_id), sib_box_id)
         IN SepSiblingsChildren(t, box_id, parent_colleague, morton_nr + 1,
                IF sep THEN Append(out, sib_box_id) ELSE out)

RECURSIVE SepSiblingsLoop(_, _, _, _, _, _)
SepSiblingsLoop(t, coll, box_id, i, stop, out) ==
    IF i >= stop THEN out
    ELSE SepSiblingsLoop(t, coll, box_id, i + 1, stop,
            SepSiblingsChildren(t, box_id, At(coll.lists, i), 0, out))

\* list 2 from the colleagues of the box instead of those of its parent
SepSiblingsOfOwnColleagues(t, coll, box_id) ==
    LET parent == At(t.box_parent_ids, box_id) IN
    IF parent = box_id THEN <<>>
    ELSE SepSiblingsLoop(t, coll, box_id,
            At(coll.starts, box_id), At(coll.starts, box_id + 1), <<>>)

SepSiblings_generate(t, coll, box_id) ==
    LET parent == At(t.box_parent_ids, box_id) IN
    IF parent = box_id THEN <<>>
    ELSE SepSiblingsLoop(t, coll, box_id,
            At(coll.starts, parent), At(coll.starts, parent + 1), <<>>)

\* ------------------------------- separated smaller non-siblings, list 3
\* the list 3 step with the else bound to the HAS_CHILDREN test
SepSmallerStepDanglingElse(t, box_id, w, out) ==
    LET center == load_center(t, box_id)
        level == At(t.box_levels, box_id)
        child_box_id == ChildOf(t, w.walk_morton_nr, w.walk_box_id)
    IN IF child_box_id # 0
       THEN IF is_adjacent_or_overlapping(t, center, level, child_box_id)
            THEN IF HasFlag(t, child_box_id, BOX_HAS_CHILDREN)
                 THEN [w |-> walk_push(w, child_box_id), out |-> out]
                 ELSE [w |-> walk_advance(t, w), out |-> Append(out, child_box_id)]
            ELSE [w |-> walk_advance(t, w), out |-> out]
       ELSE [w |-> walk_advance(t, w), out |-> out]

\* the list 3 step that appends only boxes with sources of their own
SepSmallerStepSourcesOnly(t, box_id, w, out) ==
    LET center == load_center(t, box_id)
        level == At(t.box_levels, box_id)
        child_box_id == ChildOf(t, w.walk_morton_nr, w.walk_box_id)
    IN IF child_box_id # 0
       THEN IF is_adjacent_or_overlapping(t, center, level, child_box_id)
            THEN IF HasFlag(t, child_box_id, BOX_HAS_CHILDREN)
                 THEN [w |-> walk_push(w, child_box_id), out |-> out]
                 ELSE [w |-> walk_advance(t, w), out |-> out]
            ELSE [w |-> walk_advance(t, w),
                  out |-> IF HasFlag(t, child_box_id, BOX_HAS_OWN_SOURCES)
                             THEN Append(out, child_box_id) ELSE out]
       ELSE [w |-> walk_advance(t, w), out |-> out]

SepSmallerStep(t, box_id, w, out) ==
    LET center == load_center(t, box_id)
        level == At(t.box_levels, box_id)
        child_box_id == ChildOf(t, w.walk_morton_nr, w.walk_box_id)
    IN IF child_box_id # 0
       THEN IF is_adjacent_or_overlapping(t, center, level, child_box_id)
            THEN IF HasFlag(t, child_box_id, BOX_HAS_CHILDREN)
                 THEN [w |-> walk_push(w, child_box_id), out |-> out]
                 ELSE [w |-> walk_advance(t, w), out |-> out]
            ELSE [w |-> walk_advance(t, w), out |-> Append(out, child_box_id)]
       ELSE [w |-> walk_advance(t, w), out |-> out]

RECURSIVE SepSmallerWalk(_, _, _, _)
SepSmallerWalk(t, box_id, w, out) ==
    IF ~w.continue_walk THEN out
    ELSE LET r == SepSmallerStep(t, box_id, w, out)
         IN SepSmallerWalk(t, box_id, r.w, r.out)

RECURSIVE SepSmallerLoop(_, _, _, _, _, _)
SepSmallerLoop(t, coll, box_id, i, stop, out) ==
    IF i >= stop THEN out
    ELSE SepSmallerLoop(t, coll, box_id, i + 1, stop,
            SepSmallerWalk(t, box_id, walk_init(t, At(coll.lists, i)), out))

SepSmallerNonsiblings_generate(t, coll, tgt_boxes, target_box_number) ==
    LET box_id == At(tgt_boxes, target_box_number) IN
    SepSmallerLoop(t, coll, box_id,
        At(coll.starts, box_id), At(coll.starts, box_id + 1), <<>>)

\* -------------------------------- separated bigger non-siblings, list 4
\* list 4 without the search for a closer parent
NoCloserParentCheck(t, colleague_box_id, check_parent_box_id, check_walk_level, walk_level) ==
    FALSE

\* the inner while (true) loop: is a parent of box_id below walk_level
\* already not adjacent to the colleague?
RECURSIVE FoundCloserParent(_, _, _, _, _)
FoundCloserParent(t, colleague_box_id, check_parent_box_id, check_walk_level, walk_level) ==
    IF check_walk_level - 1 = walk_level THEN FALSE
    ELSE LET cp == At(t.box_parent_ids, check_parent_box_id)
             parent_a_or_o == is_adjacent_or_overlapping(t,
                 load_center(t, colleague_box_id), walk_level, cp)
         IN IF ~parent_a_or_o THEN TRUE
            ELSE FoundCloserParent(t, colleague_box_id, cp, check_walk_level - 1, walk_level)

\* the body of the for loop that takes the adjacent colleagues
SepBiggerColleagueAdjacent(t, box_id, colleague_box_id, walk_level, out) ==
    LET box_level == At(t.box_levels, box_id)
        a_or_o == is_adjacent_or_overlapping(t, load_center(t, box_id),
                      box_level, colleague_box_id)
    IN IF a_or_o /\ HasFlag(t, colleague_box_id, BOX_HAS_OWN_SOURCES)
          /\ ~FoundCloserParent(t, colleague_box_id, box_id, box_level, walk_level)
       THEN Append(out, colleague_box_id)
       ELSE out

\* the body of the for loop over the colleagues of current_parent_box_id
SepBiggerColleague(t, box_id, colleague_box_id, walk_level, out) ==
    LET box_level == At(t.box_levels, box_id)
        a_or_o == is_adjacent_or_overlapping(t, load_center(t, box_id),
                      box_level, colleague_box_id)
    IN IF ~a_or_o /\ HasFlag(t, colleague_box_id, BOX_HAS_OWN_SOURCES)
          /\ ~FoundCloserParent(t, colleague_box_id, box_id, box_level, walk_level)
       THEN Append(out, colleague_box_id)
       ELSE out

RECURSIVE SepBiggerLoop(_, _, _, _, _, _, _)
SepBiggerLoop(t, coll, box_id, walk_level, i, stop, out) ==
    IF i >= stop THEN out
    ELSE SepBiggerLoop(t, coll, box_id, walk_level, i + 1, stop,
            SepBiggerColleague(t, box_id, At(coll.lists, i), walk_level, out))

\* the outer loop left after the colleagues of the parent
SepBiggerOuterParentOnly(t, coll, box_id, current_parent_box_id, walk_level, out) ==
    IF walk_level = 0 THEN out
    ELSE IF walk_level - 1 = 0 THEN out
    ELSE LET p == At(t.box_parent_ids, current_parent_box_id)
         IN SepBiggerLoop(t, coll, box_id, walk_level - 1,
                At(coll.starts, p), At(coll.starts, p + 1), out)

\* the outer while (walk_level) loop
RECURSIVE SepBiggerOuter(_, _, _, _, _, _)
SepBiggerOuter(t, coll, box_id, current_parent_box_id, walk_level, out) ==
    IF walk_level = 0 THEN out
    ELSE IF walk_level - 1 = 0 THEN out
    ELSE LET p == At(t.box_parent_ids, current_parent_box_id)
         IN SepBiggerOuter(t, coll, box_id, p, walk_level - 1,
                SepBiggerLoop(t, coll, box_id, walk_level - 1,
                    At(coll.starts, p), At(coll.starts, p + 1), out))

SepBiggerNonsiblings_generate(t, coll, box_id) ==
    SepBiggerOuter(t, coll, box_id, box_id, At(t.box_levels, box_id), <<>>)

\* ------------------------------------------------- level start box nrs
\* the work item with a strict comparison against the start of the level
LevelStartItemStrict(t, box_list, result, i) ==
    LET my_box_id == At(box_list, i)
        prev_box_id == At(box_list, i - 1)
        my_level == At(t.box_levels, my_box_id)
        my_level_start == At(t.level_start_box_nrs, my_level)
    IN IF prev_box_id < my_level_start /\ my_level_start < my_box_id
       THEN [result EXCEPT ![my_level + 1] = i]
       ELSE result

\* the work item without the test on the previous box: every box of a
\* level writes the slot of its level
LevelStartItemEveryBox(t, box_list, result, i) ==
    LET my_box_id == At(box_list, i)
        my_level == At(t.box_levels, my_box_id)
        my_level_start == At(t.level_start_box_nrs, my_level)
    IN IF my_level_start <= my_box_id
       THEN [result EXCEPT ![my_level + 1] = i]
       ELSE result

\* work item i of the extract_level_start_box_nrs kernel
LevelStartItem(t, box_list, result, i) ==
    LET my_box_id == At(box_list, i)
        prev_box_id == At(box_list, i - 1)
        my_level == At(t.box_levels, my_box_id)
        my_level_start == At(t.level_start_box_nrs, my_level)
    IN IF prev_box_id < my_level_start /\ my_level_start <= my_box_id
       THEN [result EXCEPT ![my_level + 1] = i]
       ELSE result

\* the work items 1 .. len(box_list)-1 one after the other
RECURSIVE LevelStartInOrder(_, _, _, _)
LevelStartInOrder(t, box_list, result, i) ==
    IF i >= Len(box_list) THEN result
    ELSE LevelStartInOrder(t, box_list, LevelStartItem(t, box_list, result, i), i + 1)

\* the host loop over ilev = nlevels-1 .. 0 for unoccupied levels
RECURSIVE LevelStartPostprocess(_, _, _)
LevelStartPostprocess(result, ilev, prev_start) ==
    IF ilev < 0 THEN result
    ELSE LET v == Min2(At(result, ilev), prev_start)
         IN LevelStartPostprocess([result EXCEPT ![ilev + 1] = v], ilev - 1, v)

\* ------------------------------------------------- entry of __call__
\* __call__ without the test of tree._is_pruned
no_is_pruned_check(t) == "get_kernel_info"

\* if not tree._is_pruned: raise ValueError
check_is_pruned(t) == IF ~t._is_pruned THEN "ValueError" ELSE "get_kernel_info"

\* the vector lengths pyopencl has types for: cl.array.vec.types is keyed
\* by (dtype, length)
vec_types == {2, 3, 4, 8, 16}

AXIS_NAMES == <<"x", "y", "z", "w">>

\* rendering the kernel templates looks up vec_types[coord_dtype, dimensions]
\* and AXIS_NAMES[i] for every axis i; nothing else depends on what
\* dimensions is
get_kernel_info(t) ==
    IF t.dimensions \notin vec_types THEN "KeyError"
    ELSE IF t.dimensions > Len(AXIS_NAMES) THEN "IndexError"
    ELSE "classify"

\* the lists of sources_parents_and_targets_builder
sources_parents_and_targets_builder(t) ==
    {"source_parent_boxes", "source_boxes"}
    \cup (IF ~t.sources_are_targets THEN {"target_boxes"} ELSE {})

\* target_boxes bound to a copy of source_boxes
target_boxes_copied(t, result) ==
    IF ~t.sources_are_targets
        THEN [obj |-> "target_boxes", lists |-> result["target_boxes"]]
        ELSE [obj |-> "copy of source_boxes", lists |-> result["source_boxes"]]

\* the array the name target_boxes is bound to: result["target_boxes"].lists,
\* or the object source_boxes is bound to
bind_target_boxes(t, result) ==
    IF ~t.sources_are_targets
        THEN [obj |-> "target_boxes", lists |-> result["target_boxes"]]
        ELSE [obj |-> "source_boxes", lists |-> result["source_boxes"]]

\* ------------------------------------ multipoles of the wrangler
\* An expansion is modelled by what it stands for: how often the sources
\* of each box have been added into it.
\* multipole_expansion_zeros
multipole_expansion_zeros(t) ==
    [b \in 0..(t.nboxes - 1) |-> [src \in 0..(t.nboxes - 1) |-> 0]]

\* the expansion formmp makes of the sources of box src_ibox
formmp(t, src_ibox) == [src \in 0..(t.nboxes - 1) |-> IF src = src_ibox THEN 1 ELSE 0]

\* the translated expansion added onto another: mpoles[ibox] += new_mp
AddExpansion(a, b) == [src \in DOMAIN a |-> a[src] + b[src]]

\* HelmholtzExpansionWrangler.form_multipoles: the loop over source_boxes
RECURSIVE form_multipoles(_, _, _, _)
form_multipoles(t, src_boxes, i, mp) ==
    IF i >= Len(src_boxes) THEN mp
    ELSE LET src_ibox == At(src_boxes, i)
         IN form_multipoles(t, src_boxes, i + 1,
                [mp EXCEPT ![src_ibox] = formmp(t, src_ibox)])

\* for child in tree.box_child_ids[:, ibox]: if child: mpoles[ibox] += mpmp(mpoles[child])
RECURSIVE CoarsenChildren(_, _, _, _)
CoarsenChildren(t, ibox, morton_nr, mp) ==
    IF morton_nr >= NChildren(t.dimensions) THEN mp
    ELSE LET child == ChildOf(t, morton_nr, ibox)
         IN CoarsenChildren(t, ibox, morton_nr + 1,
                IF child # 0 THEN [mp EXCEPT ![ibox] = AddExpansion(mp[ibox], mp[child])]
                ELSE mp)

\* for ibox in source_parent_boxes[start:stop]
RECURSIVE CoarsenBoxes(_, _, _, _, _)
CoarsenBoxes(t, src_parent_boxes, i, stop, mp) ==
    IF i >= stop \/ i >= Len(src_parent_boxes) THEN mp
    ELSE CoarsenBoxes(t, src_parent_boxes, i + 1, stop,
            CoarsenChildren(t, At(src_parent_boxes, i), 0, mp))

\* for source_level in range(first, last, -1)
RECURSIVE CoarsenLevels(_, _, _, _, _, _)
CoarsenLevels(t, level_starts, src_parent_boxes, source_level, last, mp) ==
    IF source_level <= last THEN mp
    ELSE LET start == At(level_starts, source_level)
             stop == At(level_starts, source_level + 1)
         IN CoarsenLevels(t, level_starts, src_parent_boxes, source_level - 1, last,
                CoarsenBoxes(t, src_parent_boxes, start, stop, mp))

\* coarsen_multipoles whose last level is 3
coarsen_multipoles_down_to_three(t, level_starts, src_parent_boxes, mp) ==
    CoarsenLevels(t, level_starts, src_parent_boxes, t.nlevels - 1, 2, mp)

\* HelmholtzExpansionWrangler.coarsen_multipoles:
\* for source_level in range(tree.nlevels-1, 1, -1)
coarsen_multipoles(t, level_starts, src_parent_boxes, mp) ==
    CoarsenLevels(t, level_starts, src_parent_boxes, t.nlevels - 1, 1, mp)

\* ---------------------------------------------------------------- state
VARIABLES
    tree,                               \* the Tree handed to the builder
    pc,                                 \* the stage __call__ has reached
    source_boxes, source_parent_boxes, target_boxes,
    level_start_source_parent_box_nrs,
    pending,                            \* work items of the level start kernel not yet run
    emitted,                            \* emissions of the keys the running builder has processed
    colleagues, neighbor_source_boxes, sep_siblings,
    sep_smaller_nonsiblings, sep_bigger_nonsiblings,
    objects,                            \* the arrays the classification made, and which of them
                                        \* source_boxes and target_boxes name
    events,                             \* the events of the enqueued stages
    walk,                               \* the tree walk of the work item that is running
    mpoles                              \* the multipole expansions of the wrangler

vars == <<tree, pc, source_boxes, source_parent_boxes, target_boxes,
          level_start_source_parent_box_nrs, pending, emitted,
          colleagues, neighbor_source_boxes, sep_siblings,
          sep_smaller_nonsiblings, sep_bigger_nonsiblings,
          objects, events, walk, mpoles>>

partitions == <<source_boxes, source_parent_boxes, target_boxes>>

NotBuilt == [starts |-> <<>>, lists |-> <<>>, count |-> 0]

NoEmissions == <<>>

NoObjects == [built |-> {}, source_boxes |-> "none", target_boxes |-> "none"]

NoEvents == <<>>

NoWalk == [kind |-> "none"]

NoMultipoles == [stage |-> "none"]

\* the trees of the model: every shape of at most MaxBoxes boxes and no
\* more than MaxLevel levels below the root, and the spines
IsTreeInput(t) ==
    \/ \E shape \in Shapes(Dimensions, MaxBoxes, MaxLevel) :
         \E f \in Particles(Dimensions, shape) :
            t = MkTree(MkGeometry(Dimensions, shape), shape, f[1], f[2], f[3])
    \/ \E shape \in SpineShapes(Dimensions) :
         \E own \in {shape, Leaves(Dimensions, shape)} :
            t = MkTree(MkGeometry(Dimensions, shape), shape, own, own, TRUE)
    \/ \E shape \in {GridShape(Dimensions, 2), RefinedQuadrantShape(Dimensions)} :
         \E s_a_t \in BOOLEAN :
            t = MkTree(MkGeometry(Dimensions, shape), shape,
                       Leaves(Dimensions, shape), Leaves(Dimensions, shape), s_a_t)
    \/ \E shape \in Shapes(Dimensions, MaxBoxes, MaxLevel) :
            t = Unpruned(MkTree(MkGeometry(Dimensions, shape), shape, {0}, {0}, TRUE))
    \/ \E d \in OtherDimensions : \E shape \in Shapes(d, MaxBoxesOtherDim, MaxLevel) :
         \E f \in Particles(d, shape) :
            t = MkTree(MkGeometry(d, shape), shape, f[1], f[2], f[3])

\* the trees whose builders run key by key
IsTreeInputWI(t) ==
    \E shape \in Shapes(Dimensions, MaxBoxes, MaxLevelWI) :
        \E f \in {<<shape, shape, TRUE>>, <<Leaves(Dimensions, shape), shape, FALSE>>} :
            t = MkTree(MkGeometry(Dimensions, shape), shape, f[1], f[2], f[3])

InitBuilder ==
    /\ pc = "start"
    /\ source_boxes = <<>>
    /\ source_parent_boxes = <<>>
    /\ target_boxes = <<>>
    /\ level_start_source_parent_box_nrs = <<>>
    /\ pending = {}
    /\ emitted = NoEmissions
    /\ colleagues = NotBuilt
    /\ neighbor_source_boxes = NotBuilt
    /\ sep_siblings = NotBuilt
    /\ sep_smaller_nonsiblings = NotBuilt
    /\ sep_bigger_nonsiblings = NotBuilt
    /\ objects = NoObjects
    /\ events = NoEvents
    /\ walk = NoWalk
    /\ mpoles = NoMultipoles

Init == IsTreeInput(tree) /\ InitBuilder

InitWI == IsTreeInputWI(tree) /\ InitBuilder

\* the keys of the builder of a stage, and what generate emits for a key
StageKeys(stage) ==
    IF stage \in {"list1", "list3"} THEN 0..(Len(target_boxes) - 1)
    ELSE 0..(tree.nboxes - 1)

Generate(stage, k) ==
    CASE stage = "classify" -> SourcesParentsAndTargets_generate(tree, k)
      [] stage = "colleagues" -> Colleagues_generate(tree, k)
      [] stage = "list1" -> NeighborSourceBoxes_generate(tree, target_boxes, k)
      [] stage = "list2" -> SepSiblings_generate(tree, colleagues, k)
      [] stage = "list3" -> SepSmallerNonsiblings_generate(tree, colleagues, target_boxes, k)
      [] stage = "list4" -> SepBiggerNonsiblings_generate(tree, colleagues, k)

NextStage(stage) ==
    CASE stage = "classify" -> "level_start_fill"
      [] stage = "colleagues" -> "list1"
      [] stage = "list1" -> "list2"
      [] stage = "list2" -> "list3"
      [] stage = "list3" -> "list4"
      [] stage = "list4" -> "done"

\* the builder of a stage has run every key: its lists are stored
StoreLists(stage, em) ==
    LET n == Cardinality(StageKeys(stage))
        ll == ListOfLists(n, em)
    IN /\ IF stage = "classify"
          THEN LET result == [name \in sources_parents_and_targets_builder(tree) |->
                                 ListOfLists(n, [b \in StageKeys(stage) |-> em[b][name]]).lists]
                   tgt == bind_target_boxes(tree, result)
               IN /\ source_boxes' = result["source_boxes"]
                  /\ source_parent_boxes' = result["source_parent_boxes"]
                  /\ target_boxes' = tgt.lists
                  /\ objects' = [built |-> DOMAIN result,
                                 source_boxes |-> "source_boxes",
                                 target_boxes |-> tgt.obj]
          ELSE UNCHANGED <<partitions, objects>>
       /\ colleagues' = IF stage = "colleagues" THEN ll ELSE colleagues
       /\ neighbor_source_boxes' = IF stage = "list1" THEN ll ELSE neighbor_source_boxes
       /\ sep_siblings' = IF stage = "list2" THEN ll ELSE sep_siblings
       /\ sep_smaller_nonsiblings' = IF stage = "list3" THEN ll ELSE sep_smaller_nonsiblings
       /\ sep_bigger_nonsiblings' = IF stage = "list4" THEN ll ELSE sep_bigger_nonsiblings
       /\ UNCHANGED <<tree, mpoles, level_start_source_parent_box_nrs, pending>>

\* and __call__ goes on to the next stage
Store(stage, em) ==
    /\ StoreLists(stage, em)
    /\ pc' = NextStage(stage)
    /\ UNCHANGED <<events, walk>>

outputs == <<partitions, level_start_source_parent_box_nrs, colleagues,
             neighbor_source_boxes, sep_siblings, sep_smaller_nonsiblings,
             sep_bigger_nonsiblings, objects>>

\* the first statement of __call__
CheckPruned ==
    /\ pc = "start"
    /\ pc' = check_is_pruned(tree)
    /\ UNCHANGED <<tree, mpoles, outputs, pending, emitted, events, walk>>

\* knl_info = self.get_kernel_info(...)
GetKernelInfo ==
    /\ pc = "get_kernel_info"
    /\ pc' = get_kernel_info(tree)
    /\ UNCHANGED <<tree, mpoles, outputs, pending, emitted, events, walk>>

\* a whole builder call as one step
RunStage(stage) ==
    /\ pc = stage
    /\ emitted = NoEmissions
    /\ Store(stage, [k \in StageKeys(stage) |-> Generate(stage, k)])
    /\ UNCHANGED emitted

\* sources_parents_and_targets_builder over all boxes
Classify == RunStage("classify")

\* extract_level_start_box_nrs: allocate the result, filled with len(box_list),
\* and launch the kernel over range 1..len(box_list)-1
LevelStartFill ==
    /\ pc = "level_start_fill"
    /\ level_start_source_parent_box_nrs' =
            [k \in 1..(tree.nlevels + 1) |-> Len(source_parent_boxes)]
    /\ pending' = 1..(Len(source_parent_boxes) - 1)
    /\ pc' = "level_start_kernel"
    /\ UNCHANGED <<tree, mpoles, partitions, emitted, colleagues, neighbor_source_boxes,
                   sep_siblings, sep_smaller_nonsiblings, sep_bigger_nonsiblings,
                   objects, events, walk>>

\* one work item of the kernel, in any order
LevelStartKernel ==
    /\ pc = "level_start_kernel"
    /\ \E i \in pending :
        /\ level_start_source_parent_box_nrs' =
              LevelStartItem(tree, source_parent_boxes, level_start_source_parent_box_nrs, i)
        /\ pending' = pending \ {i}
    /\ UNCHANGED <<tree, mpoles, pc, partitions, emitted, colleagues, neighbor_source_boxes,
                   sep_siblings, sep_smaller_nonsiblings, sep_bigger_nonsiblings,
                   objects, events, walk>>

\* result.get(), result[0] = 0 and the loop for unoccupied levels
LevelStartPost ==
    /\ pc = "level_start_kernel"
    /\ pending = {}
    /\ level_start_source_parent_box_nrs' =
          LevelStartPostprocess([level_start_source_parent_box_nrs EXCEPT ![1] = 0],
              tree.nlevels - 1, Len(source_parent_boxes))
    /\ pc' = "colleagues"
    /\ UNCHANGED <<tree, mpoles, pending, partitions, emitted, colleagues, neighbor_source_boxes,
                   sep_siblings, sep_smaller_nonsiblings, sep_bigger_nonsiblings,
                   objects, events, walk>>

BuildColleagues == RunStage("colleagues")

BuildNeighborSourceBoxes == RunStage("list1")

BuildSepSiblings == RunStage("list2")

BuildSepSmallerNonsiblings == RunStage("list3")

BuildSepBiggerNonsiblings == RunStage("list4")

\* the wrangler forms the multipoles of the source boxes of the traversal
FormMultipoles ==
    /\ pc = "done"
    /\ mpoles = NoMultipoles
    /\ mpoles' = [stage |-> "formed",
                  exps |-> form_multipoles(tree, source_boxes, 0,
                               multipole_expansion_zeros(tree))]
    /\ UNCHANGED <<tree, pc, outputs, pending, emitted, events, walk>>

\* and merges them upward, in place
CoarsenMultipoles ==
    /\ pc = "done"
    /\ mpoles.stage = "formed"
    /\ mpoles' = [stage |-> "coarsened",
                  exps |-> coarsen_multipoles(tree, level_start_source_parent_box_nrs,
                               source_parent_boxes, mpoles.exps)]
    /\ UNCHANGED <<tree, pc, outputs, pending, emitted, events, walk>>

Next ==
    \/ CheckPruned
    \/ GetKernelInfo
    \/ Classify
    \/ LevelStartFill
    \/ LevelStartKernel
    \/ LevelStartPost
    \/ BuildColleagues
    \/ BuildNeighborSourceBoxes
    \/ BuildSepSiblings
    \/ BuildSepSmallerNonsiblings
    \/ BuildSepBiggerNonsiblings
    \/ FormMultipoles
    \/ CoarsenMultipoles

Spec == Init /\ [][Next]_vars

\* ----------------------------------------- the builders, key by key
ListStages == {"classify", "colleagues", "list1", "list2", "list3", "list4"}

\* generate runs for one key the builder has not processed yet
WorkItem ==
    /\ pc \in ListStages
    /\ \E k \in StageKeys(pc) \ DOMAIN emitted :
        emitted' = [j \in DOMAIN emitted \cup {k} |->
                        IF j = k THEN Generate(pc, k) ELSE emitted[j]]
    /\ UNCHANGED <<tree, mpoles, pc, partitions, level_start_source_parent_box_nrs, pending,
                   colleagues, neighbor_source_boxes, sep_siblings,
                   sep_smaller_nonsiblings, sep_bigger_nonsiblings,
                   objects, events, walk>>

\* every key has run
StageComplete ==
    /\ pc \in ListStages
    /\ DOMAIN emitted = StageKeys(pc)
    /\ Store(pc, emitted)
    /\ emitted' = NoEmissions

NextWI ==
    \/ CheckPruned
    \/ GetKernelInfo
    \/ WorkItem
    \/ StageComplete
    \/ LevelStartFill
    \/ LevelStartKernel
    \/ LevelStartPost

SpecWI == InitWI /\ [][NextWI]_vars

\* ------------------------------------- the stages as enqueued commands
\* __call__ enqueues every stage with wait_for and goes on; a command may
\* start once the events it waits for are complete.
\* the wait_for of the list 3 builder left out
wait_for_not_passed(stage) ==
    CASE stage = "classify" -> {}
      [] stage = "level_start" -> {"classify"}
      [] stage = "colleagues" -> {"level_start"}
      [] stage = "list1" -> {"colleagues"}
      [] stage = "list2" -> {"list1"}
      [] stage = "list3" -> {}
      [] stage = "list4" -> {"list3"}

\* the wait_for each stage is enqueued with: the event of the stage before
wait_for(stage) ==
    CASE stage = "classify" -> {}
      [] stage = "level_start" -> {"classify"}
      [] stage = "colleagues" -> {"level_start"}
      [] stage = "list1" -> {"colleagues"}
      [] stage = "list2" -> {"list1"}
      [] stage = "list3" -> {"list2"}
      [] stage = "list4" -> {"list3"}

Enqueued(stage) ==
    [e \in DOMAIN events \cup {stage} |->
        IF e = stage THEN [status |-> "queued", wait_for |-> wait_for(stage)]
        ELSE events[e]]

\* a builder call returns its result and its event
Enqueue ==
    /\ pc \in ListStages
    /\ events' = Enqueued(pc)
    /\ pc' = NextStage(pc)
    /\ UNCHANGED <<tree, mpoles, outputs, pending, emitted, walk>>

\* extract_level_start_box_nrs enqueues the fill and the kernel
EnqueueLevelStart ==
    /\ pc = "level_start_fill"
    /\ events' = Enqueued("level_start")
    /\ pc' = "level_start_kernel"
    /\ UNCHANGED <<tree, mpoles, outputs, pending, emitted, walk>>

\* result.get() blocks until the kernel has run; then result[0] = 0 and
\* the loop for unoccupied levels
LevelStartGet ==
    /\ pc = "level_start_kernel"
    /\ "level_start" \in DOMAIN events
    /\ events["level_start"].status = "complete"
    /\ level_start_source_parent_box_nrs' =
          LevelStartPostprocess([level_start_source_parent_box_nrs EXCEPT ![1] = 0],
              tree.nlevels - 1, Len(source_parent_boxes))
    /\ pc' = "colleagues"
    /\ UNCHANGED <<tree, mpoles, partitions, objects, colleagues, neighbor_source_boxes,
                   sep_siblings, sep_smaller_nonsiblings, sep_bigger_nonsiblings,
                   pending, emitted, events, walk>>

\* the device starts a command whose wait_for events are complete
StartCommand ==
    /\ \E stage \in DOMAIN events :
          /\ events[stage].status = "queued"
          /\ \A e \in events[stage].wait_for :
                e \in DOMAIN events /\ events[e].status = "complete"
          /\ events' = [events EXCEPT ![stage].status = "running"]
    /\ UNCHANGED <<tree, mpoles, pc, outputs, pending, emitted, walk>>

\* a builder has run every key
FinishBuilder ==
    /\ \E stage \in DOMAIN events \cap ListStages :
          /\ events[stage].status = "running"
          /\ StoreLists(stage, [k \in StageKeys(stage) |-> Generate(stage, k)])
          /\ events' = [events EXCEPT ![stage].status = "complete"]
    /\ UNCHANGED <<pc, emitted, walk>>

\* the level start kernel has run every work item on the filled result
FinishLevelStart ==
    /\ "level_start" \in DOMAIN events
    /\ events["level_start"].status = "running"
    /\ level_start_source_parent_box_nrs' =
          LevelStartInOrder(tree, source_parent_boxes,
              [k \in 1..(tree.nlevels + 1) |-> Len(source_parent_boxes)], 1)
    /\ events' = [events EXCEPT !["level_start"].status = "complete"]
    /\ UNCHANGED <<tree, mpoles, pc, partitions, objects, colleagues, neighbor_source_boxes,
                   sep_siblings, sep_smaller_nonsiblings, sep_bigger_nonsiblings,
                   pending, emitted, walk>>

NextEv ==
    \/ CheckPruned
    \/ GetKernelInfo
    \/ Enqueue
    \/ EnqueueLevelStart
    \/ LevelStartGet
    \/ StartCommand
    \/ FinishBuilder
    \/ FinishLevelStart

SpecEv == InitWI /\ [][NextEv]_vars

\* ------------------------------------------- the walks, step by step
\* the trees whose walks run iteration by iteration
IsTreeInputWalk(t) ==
    \E shape \in Shapes(Dimensions, MaxBoxesWalk, MaxLevel) :
        \E f \in {<<shape, shape, TRUE>>, <<Leaves(Dimensions, shape), shape, FALSE>>} :
            t = MkTree(MkGeometry(Dimensions, shape), shape, f[1], f[2], f[3])

InitWalk == IsTreeInputWalk(tree) /\ InitBuilder

\* the boxes target_boxes holds once classified
TargetBoxesOf(t) ==
    {b \in 0..(t.nboxes - 1) :
        HasFlag(t, b, IF t.sources_are_targets THEN BOX_HAS_OWN_SOURCES
                      ELSE BOX_HAS_OWN_TARGETS)}

BeginWalk(kind, box_id, start_box_id) ==
    /\ walk = NoWalk
    /\ walk' = [kind |-> kind, box_id |-> box_id, start_box_id |-> start_box_id,
                w |-> walk_init(tree, start_box_id), out |-> <<>>]
    /\ UNCHANGED <<tree, mpoles, pc, outputs, pending, emitted, events>>

\* the colleagues kernel of a box other than the root walks from the root
BeginColleaguesWalk ==
    \E box_id \in 1..(tree.nboxes - 1) : BeginWalk("colleagues", box_id, 0)

\* the list 1 kernel of a target box walks from the root
BeginNeighborSourceBoxesWalk ==
    \E box_id \in TargetBoxesOf(tree) : BeginWalk("list1", box_id, 0)

\* the list 3 kernel of a target box walks from each of its colleagues
BeginSepSmallerWalk ==
    \E box_id \in TargetBoxesOf(tree) :
        \E colleague \in Range(Colleagues_generate(tree, box_id)) :
            BeginWalk("list3", box_id, colleague)

\* one iteration of while (continue_walk)
WalkStep ==
    /\ walk # NoWalk
    /\ walk.kind # "ended"
    /\ "w" \in DOMAIN walk
    /\ walk.w.continue_walk
    /\ LET r == CASE walk.kind = "colleagues" ->
                        ColleaguesStep(tree, walk.box_id, walk.w, walk.out)
                   [] walk.kind = "list1" ->
                        NeighborSourceBoxesStep(tree, walk.box_id, walk.w, walk.out)
                   [] walk.kind = "list3" ->
                        SepSmallerStep(tree, walk.box_id, walk.w, walk.out)
       IN walk' = [walk EXCEPT !.w = r.w, !.out = r.out]
    /\ UNCHANGED <<tree, mpoles, pc, outputs, pending, emitted, events>>

\* continue_walk is false: the loop is left and the work item is over
WalkEnd ==
    /\ walk # NoWalk
    /\ walk.kind # "ended"
    /\ "w" \in DOMAIN walk
    /\ ~walk.w.continue_walk
    /\ walk' = [walk EXCEPT !.kind = "ended"]
    /\ UNCHANGED <<tree, mpoles, pc, outputs, pending, emitted, events>>

NextWalk ==
    \/ BeginColleaguesWalk
    \/ BeginNeighborSourceBoxesWalk
    \/ BeginSepSmallerWalk
    \/ WalkStep
    \/ WalkEnd

SpecWalk == InitWalk /\ [][NextWalk]_vars

\* ------------------------------------------- list 4, loop by loop
\* a chain of boxes from the root down to level MaxLevel, and one more
\* child of the root
ChainShapes(d) ==
    {{SpineOf(d, ms, l) : l \in 0..MaxLevel} \cup {ChildName(d, 0, m)} :
        ms \in [1..MaxLevel -> 0..(NChildren(d) - 1)], m \in 0..(NChildren(d) - 1)}

\* the trees whose per-key routines run loop iteration by loop iteration:
\* those of the walks, and the chains with particles in every box
IsTreeInputRoutine(t) ==
    \/ IsTreeInputWalk(t)
    \/ \E shape \in ChainShapes(Dimensions) :
            t = MkTree(MkGeometry(Dimensions, shape), shape, shape, shape, TRUE)

InitRoutine == IsTreeInputRoutine(tree) /\ InitBuilder

\* colleagues_starts and colleagues_list as the list 4 kernel receives them
ColleaguesOf(t) ==
    ListOfLists(t.nboxes, [k \in 0..(t.nboxes - 1) |-> Colleagues_generate(t, k)])

\* the locals of generate before the outer loop; parent_reads records the
\* boxes whose box_parent_ids entry the work item has read
SepBiggerInit(t, box_id) ==
    [at |-> "while",
     walk_level |-> At(t.box_levels, box_id),
     current_parent_box_id |-> box_id,
     i |-> 0,
     coll_stop |-> 0,
     colleague_box_id |-> Uninit,
     check_parent_box_id |-> Uninit,
     check_walk_level |-> Uninit,
     parent_reads |-> {},
     out |-> <<>>]

\* the test of while (walk_level) and the advance of one iteration
SepBiggerWhile(t, coll, box_id, s) ==
    IF s.walk_level = 0 THEN [s EXCEPT !.at = "return"]
    ELSE IF s.walk_level - 1 = 0 THEN [s EXCEPT !.walk_level = 0, !.at = "return"]
    ELSE LET p == At(t.box_parent_ids, s.current_parent_box_id)
         IN [s EXCEPT !.walk_level = s.walk_level - 1,
                      !.current_parent_box_id = p,
                      !.parent_reads = s.parent_reads \cup {s.current_parent_box_id},
                      !.i = At(coll.starts, p),
                      !.coll_stop = At(coll.starts, p + 1),
                      !.at = "for"]

\* the test of the for loop and its body up to the inner loop
SepBiggerFor(t, coll, box_id, s) ==
    IF s.i >= s.coll_stop THEN [s EXCEPT !.at = "while"]
    ELSE LET box_level == At(t.box_levels, box_id)
             colleague_box_id == At(coll.lists, s.i)
             a_or_o == is_adjacent_or_overlapping(t, load_center(t, box_id),
                           box_level, colleague_box_id)
         IN IF ~a_or_o /\ HasFlag(t, colleague_box_id, BOX_HAS_OWN_SOURCES)
            THEN [s EXCEPT !.colleague_box_id = colleague_box_id,
                           !.check_parent_box_id = box_id,
                           !.check_walk_level = box_level,
                           !.at = "inner"]
            ELSE [s EXCEPT !.i = s.i + 1]

\* the inner loop without the decrement of check_walk_level
SepBiggerInnerNoDecrement(t, box_id, s) ==
    IF s.check_walk_level = s.walk_level
    THEN [s EXCEPT !.out = Append(s.out, s.colleague_box_id),
                   !.i = s.i + 1,
                   !.at = "for"]
    ELSE LET cp == At(t.box_parent_ids, s.check_parent_box_id)
             parent_a_or_o == is_adjacent_or_overlapping(t,
                 load_center(t, s.colleague_box_id), s.walk_level, cp)
             s1 == [s EXCEPT !.check_parent_box_id = cp,
                             !.parent_reads = s.parent_reads \cup {s.check_parent_box_id}]
         IN IF ~parent_a_or_o THEN [s1 EXCEPT !.i = s.i + 1, !.at = "for"]
            ELSE s1

\* one iteration of the inner while (true), and what follows it in the for
\* body when the loop is left
SepBiggerInner(t, box_id, s) ==
    LET cwl == s.check_walk_level - 1 IN
    IF cwl = s.walk_level
    THEN [s EXCEPT !.check_walk_level = cwl,
                   !.out = Append(s.out, s.colleague_box_id),
                   !.i = s.i + 1,
                   !.at = "for"]
    ELSE LET cp == At(t.box_parent_ids, s.check_parent_box_id)
             parent_a_or_o == is_adjacent_or_overlapping(t,
                 load_center(t, s.colleague_box_id), s.walk_level, cp)
             s1 == [s EXCEPT !.check_walk_level = cwl,
                             !.check_parent_box_id = cp,
                             !.parent_reads = s.parent_reads \cup {s.check_parent_box_id}]
         IN IF ~parent_a_or_o THEN [s1 EXCEPT !.i = s.i + 1, !.at = "for"]
            ELSE s1

\* the list 4 kernel runs for every box, with the colleagues as arguments
BeginSepBiggerRoutine ==
    /\ walk = NoWalk
    /\ \E box_id \in 0..(tree.nboxes - 1) :
          walk' = [kind |-> "list4", box_id |-> box_id, coll |-> ColleaguesOf(tree),
                   s |-> SepBiggerInit(tree, box_id)]
    /\ UNCHANGED <<tree, mpoles, pc, outputs, pending, emitted, events>>

SepBiggerAt(at) == walk # NoWalk /\ walk.kind = "list4" /\ walk.s.at = at

SepBiggerWhileStep ==
    /\ SepBiggerAt("while")
    /\ walk' = [walk EXCEPT !.s = SepBiggerWhile(tree, walk.coll, walk.box_id, walk.s)]
    /\ UNCHANGED <<tree, mpoles, pc, outputs, pending, emitted, events>>

SepBiggerForStep ==
    /\ SepBiggerAt("for")
    /\ walk' = [walk EXCEPT !.s = SepBiggerFor(tree, walk.coll, walk.box_id, walk.s)]
    /\ UNCHANGED <<tree, mpoles, pc, outputs, pending, emitted, events>>

SepBiggerInnerStep ==
    /\ SepBiggerAt("inner")
    /\ walk' = [walk EXCEPT !.s = SepBiggerInner(tree, walk.box_id, walk.s)]
    /\ UNCHANGED <<tree, mpoles, pc, outputs, pending, emitted, events>>

\* the outer loop is left: generate returns
SepBiggerReturn ==
    /\ SepBiggerAt("return")
    /\ walk' = [walk EXCEPT !.kind = "ended"]
    /\ UNCHANGED <<tree, mpoles, pc, outputs, pending, emitted, events>>

\* the next statement of the work item that is running
RoutineStep ==
    \/ WalkStep
    \/ WalkEnd
    \/ SepBiggerWhileStep
    \/ SepBiggerForStep
    \/ SepBiggerInnerStep
    \/ SepBiggerReturn

NextRoutine ==
    \/ BeginColleaguesWalk
    \/ BeginNeighborSourceBoxesWalk
    \/ BeginSepSmallerWalk
    \/ BeginSepBiggerRoutine
    \/ RoutineStep

\* a work item that has a statement to run runs it
SpecRoutine == InitRoutine /\ [][NextRoutine]_vars /\ WF_vars(RoutineStep)

\* ------------------------------------------------- notions of the claims
Boxes == 0..(tree.nboxes - 1)

TargetNumbers == 0..(Len(target_boxes) - 1)

LevelOf(b) == At(tree.box_levels, b)

ParentOf(b) == At(tree.box_parent_ids, b)

Adjacent(a, b) == is_adjacent_or_overlapping(tree, load_center(tree, a), LevelOf(a), b)

\* b, its parent, ... up to the root
RECURSIVE AncestorsOrSelf(_)
AncestorsOrSelf(b) == IF b = 0 THEN {0} ELSE {b} \cup AncestorsOrSelf(ParentOf(b))

ProperAncestors(b) == AncestorsOrSelf(b) \ {b}

Built(stages) == pc \in stages

AfterColleagues == Built({"list1", "list2", "list3", "list4", "done"})
AfterList1 == Built({"list2", "list3", "list4", "done"})
AfterList2 == Built({"list3", "list4", "done"})
AfterList3 == Built({"list4", "done"})
Done == Built({"done"})

IsColleague(B, K) == K # B /\ LevelOf(K) = LevelOf(B) /\ Adjacent(B, K)

RECURSIVE SumOver(_, _)
SumOver(f, S) ==
    IF S = {} THEN 0
    ELSE LET x == CHOOSE y \in S : TRUE IN f[x] + SumOver(f, S \ {x})

\* the number of routes by which source box S reaches target number k
Routes(k, S) ==
    LET T == At(target_boxes, k)
        viaList1 == Count(get_box_list(neighbor_source_boxes, k), S)
        viaList2 == SumOver([pr \in AncestorsOrSelf(T) \X AncestorsOrSelf(S) |->
                        Count(get_box_list(sep_siblings, pr[1]), pr[2])],
                        AncestorsOrSelf(T) \X AncestorsOrSelf(S))
        viaList3 == SumOver([M \in AncestorsOrSelf(S) |->
                        Count(get_box_list(sep_smaller_nonsiblings, k), M)],
                        AncestorsOrSelf(S))
        viaList4 == SumOver([A \in AncestorsOrSelf(T) |->
                        Count(get_box_list(sep_bigger_nonsiblings, A), S)],
                        AncestorsOrSelf(T))
    IN viaList1 + viaList2 + viaList3 + viaList4

\* ------------------------------------------------------------- claims
\* C1: partition coverage - once the build is done, every source-carrying
\* box S reaches every leaf target box T by exactly one route (List 1,
\* List 2 of ancestors, List 3, List 4 of ancestors).
C1_PartitionCoverage ==
    Done => \A k \in TargetNumbers : \A S \in Boxes :
        (/\ ~HasFlag(tree, At(target_boxes, k), BOX_HAS_CHILDREN)
         /\ HasFlag(tree, S, BOX_HAS_OWN_SOURCES))
        => Routes(k, S) = 1

\* what the code does give: exactly one route for every source box but the root
C1_CoverageBelowRoot ==
    Done => \A k \in TargetNumbers : \A S \in Boxes :
        (/\ ~HasFlag(tree, At(target_boxes, k), BOX_HAS_CHILDREN)
         /\ HasFlag(tree, S, BOX_HAS_OWN_SOURCES))
        => Routes(k, S) = IF S = 0 THEN 0 ELSE 1

\* C2: List 1 completeness - every source-carrying box adjacent to or
\* overlapping a target box (itself and the root included) is exactly once
\* in the List 1 slice of that target box number.
C2_List1Complete ==
    AfterList1 => \A k \in TargetNumbers : \A S \in Boxes :
        (HasFlag(tree, S, BOX_HAS_OWN_SOURCES) /\ Adjacent(At(target_boxes, k), S))
        => Count(get_box_list(neighbor_source_boxes, k), S) = 1

C2_List1CompleteBelowRoot ==
    AfterList1 => \A k \in TargetNumbers : \A S \in Boxes :
        (HasFlag(tree, S, BOX_HAS_OWN_SOURCES) /\ Adjacent(At(target_boxes, k), S))
        => Count(get_box_list(neighbor_source_boxes, k), S) = IF S = 0 THEN 0 ELSE 1

\* C3: colleagues are exact - the colleague slice of B holds, each once,
\* the other boxes of B's level that are adjacent to B, and nothing else.
C3_ColleaguesExact ==
    AfterColleagues => \A B \in Boxes :
        /\ Range(get_box_list(colleagues, B)) \subseteq Boxes
        /\ \A K \in Boxes : Count(get_box_list(colleagues, B), K)
                                = IF IsColleague(B, K) THEN 1 ELSE 0
        /\ get_box_list(colleagues, 0) = <<>>

C3_Witness ==
    /\ AfterColleagues
    /\ \E B \in Boxes :
        /\ get_box_list(colleagues, B) # <<>>
        /\ HasFlag(tree, B, BOX_HAS_CHILDREN)
    /\ \E B, K \in Boxes :
        /\ K # B /\ LevelOf(K) = LevelOf(B) /\ ~Adjacent(B, K)
        /\ K \notin Range(get_box_list(colleagues, B))

\* C4: colleague symmetry - B is a colleague of A iff A is a colleague of B.
C4_ColleagueSymmetry ==
    AfterColleagues => \A A, B \in Boxes :
        (B \in Range(get_box_list(colleagues, A)))
            <=> (A \in Range(get_box_list(colleagues, B)))

C4_Witness ==
    /\ AfterColleagues
    /\ \E A, B \in Boxes :
        /\ A # B
        /\ ParentOf(A) # ParentOf(B)
        /\ B \in Range(get_box_list(colleagues, A))
        /\ A \in Range(get_box_list(colleagues, B))

\* C5: List 2 is exact - list2(B) is the set of existing children c of
\* parent(B) and of the colleagues of parent(B) that are not adjacent to B;
\* its members are of B's level with a parent adjacent to parent(B); the
\* root's list is empty.
List2Expected(B) ==
    {c \in Boxes \ {0} :
        /\ ParentOf(c) \in {ParentOf(B)} \cup Range(get_box_list(colleagues, ParentOf(B)))
        /\ ~Adjacent(B, c)}

C5_List2Exact ==
    AfterList2 =>
        /\ get_box_list(sep_siblings, 0) = <<>>
        /\ \A B \in Boxes \ {0} :
            /\ Range(get_box_list(sep_siblings, B)) = List2Expected(B)
            /\ \A c \in Range(get_box_list(sep_siblings, B)) :
                /\ c \in Boxes
                /\ LevelOf(c) = LevelOf(B)
                /\ ~Adjacent(B, c)
                /\ Adjacent(ParentOf(B), ParentOf(c))

C5_Witness ==
    /\ AfterList2
    /\ \E B \in Boxes : \E K \in Range(get_box_list(colleagues, ParentOf(B))) :
        /\ get_box_list(sep_siblings, B) # <<>>
        /\ \E m \in 0..(NChildren(tree.dimensions) - 1) : ChildOf(tree, m, K) = 0

\* C6: List 3 soundness - every B in list3(T) is deeper than T, not
\* adjacent to T, and its parent is adjacent to T.
C6_List3Sound ==
    AfterList3 => \A k \in TargetNumbers :
        \A B \in Range(get_box_list(sep_smaller_nonsiblings, k)) :
            LET T == At(target_boxes, k) IN
            /\ B \in Boxes
            /\ LevelOf(B) > LevelOf(T)
            /\ ~Adjacent(T, B)
            /\ Adjacent(T, ParentOf(B))

C6_Witness ==
    /\ AfterList3
    /\ \E k \in TargetNumbers : \E B \in Range(get_box_list(sep_smaller_nonsiblings, k)) :
        /\ LevelOf(B) > LevelOf(At(target_boxes, k)) + 1
        /\ At(target_boxes, k) # k

\* C7: List 4 soundness and minimality - every B in list4(A) is shallower
\* than A, not adjacent to A, carries own sources, and is adjacent to every
\* ancestor of A above parent(A).
C7_List4Sound ==
    Done => \A A \in Boxes :
        \A B \in Range(get_box_list(sep_bigger_nonsiblings, A)) :
            /\ B \in Boxes
            /\ LevelOf(B) < LevelOf(A)
            /\ ~Adjacent(A, B)
            /\ HasFlag(tree, B, BOX_HAS_OWN_SOURCES)
            /\ \A P \in ProperAncestors(A) :
                  LevelOf(P) < LevelOf(A) - 1 => Adjacent(P, B)


C7_Witness ==
    /\ Done
    /\ \E D, K \in Boxes :
        /\ HasFlag(tree, K, BOX_HAS_OWN_SOURCES)
        /\ \E P \in ProperAncestors(D) :
              K \in Range(get_box_list(colleagues, P))
        /\ \E P \in ProperAncestors(D) : LevelOf(P) < LevelOf(D) - 1 /\ ~Adjacent(P, K)
        /\ K \notin Range(get_box_list(sep_bigger_nonsiblings, D))
        /\ \E A \in ProperAncestors(D) :
              K \in Range(get_box_list(sep_bigger_nonsiblings, A))

\* C8: level-start round trip - with L = source_parent_boxes and ls its
\* level starts, slice l of L holds boxes of level l only, ls[0] = 0,
\* ls[nlevels] = len(L), and the slices in level order make up L.
LevelSlice(l) ==
    Slice(source_parent_boxes, At(level_start_source_parent_box_nrs, l),
          At(level_start_source_parent_box_nrs, l + 1))

AfterLevelStart == Built({"colleagues", "list1", "list2", "list3", "list4", "done"})

AllEntries ==
    Range(colleagues.lists) \cup Range(neighbor_source_boxes.lists)
    \cup Range(sep_siblings.lists) \cup Range(sep_smaller_nonsiblings.lists)
    \cup Range(sep_bigger_nonsiblings.lists) \cup Range(source_boxes)
    \cup Range(source_parent_boxes) \cup Range(target_boxes)

ReadsAbsentChildSlot(B) ==
    \E K \in Range(get_box_list(colleagues, ParentOf(B))) :
        \E m \in 0..(NChildren(tree.dimensions) - 1) : ChildOf(tree, m, K) = 0

C9_NoNonexistentBoxes ==
    /\ AllEntries \subseteq Boxes
    /\ AfterList2 => \A B \in Boxes : \A c \in Range(get_box_list(sep_siblings, B)) :
          \E K \in Range(get_box_list(colleagues, ParentOf(B))) :
              \E m \in 0..(NChildren(tree.dimensions) - 1) :
                  ChildOf(tree, m, K) = c /\ c # 0

C9_Witness ==
    /\ Done
    /\ \E B \in Boxes :
        /\ ReadsAbsentChildSlot(B)
        /\ get_box_list(sep_siblings, B) # <<>>
        /\ get_box_list(sep_bigger_nonsiblings, B) # <<>>
    /\ sep_smaller_nonsiblings.lists # <<>>
    /\ neighbor_source_boxes.lists # <<>>

\* C10: determinism - whatever the order in which the keys of the builders
\* and the work items of the level start kernel run, the finished build is
\* the one that runs them in increasing order.
InOrderBuild(t) ==
    LET n == t.nboxes
        g == [b \in 0..(n - 1) |-> SourcesParentsAndTargets_generate(t, b)]
        src == ListOfLists(n, [b \in 0..(n - 1) |-> g[b].source_boxes]).lists
        par == ListOfLists(n, [b \in 0..(n - 1) |-> g[b].source_parent_boxes]).lists
        tgt == IF t.sources_are_targets THEN src
               ELSE ListOfLists(n, [b \in 0..(n - 1) |-> g[b].target_boxes]).lists
        nt == Len(tgt)
        ls == LevelStartPostprocess(
                 [LevelStartInOrder(t, par, [k \in 1..(t.nlevels + 1) |-> Len(par)], 1)
                     EXCEPT ![1] = 0],
                 t.nlevels - 1, Len(par))
        coll == ListOfLists(n, [b \in 0..(n - 1) |-> Colleagues_generate(t, b)])
    IN [source_boxes |-> src,
        source_parent_boxes |-> par,
        target_boxes |-> tgt,
        level_start_source_parent_box_nrs |-> ls,
        colleagues |-> coll,
        neighbor_source_boxes |-> ListOfLists(nt,
            [k \in 0..(nt - 1) |-> NeighborSourceBoxes_generate(t, tgt, k)]),
        sep_siblings |-> ListOfLists(n,
            [b \in 0..(n - 1) |-> SepSiblings_generate(t, coll, b)]),
        sep_smaller_nonsiblings |-> ListOfLists(nt,
            [k \in 0..(nt - 1) |-> SepSmallerNonsiblings_generate(t, coll, tgt, k)]),
        sep_bigger_nonsiblings |-> ListOfLists(n,
            [b \in 0..(n - 1) |-> SepBiggerNonsiblings_generate(t, coll, b)])]

Outputs ==
    [source_boxes |-> source_boxes,
     source_parent_boxes |-> source_parent_boxes,
     target_boxes |-> target_boxes,
     level_start_source_parent_box_nrs |-> level_start_source_parent_box_nrs,
     colleagues |-> colleagues,
     neighbor_source_boxes |-> neighbor_source_boxes,
     sep_siblings |-> sep_siblings,
     sep_smaller_nonsiblings |-> sep_smaller_nonsiblings,
     sep_bigger_nonsiblings |-> sep_bigger_nonsiblings]

C10_Determinism == Done => Outputs = InOrderBuild(tree)

C10_Witness ==
    /\ Done
    /\ \E i, j \in 1..Len(source_parent_boxes) :
          i # j /\ LevelOf(source_parent_boxes[i]) = LevelOf(source_parent_boxes[j])
    /\ sep_siblings.lists # <<>>
    /\ sep_smaller_nonsiblings.lists # <<>>

\* C11: box classification - source_boxes is the strictly increasing
\* sequence of the boxes flagged HAS_OWN_SOURCES, source_parent_boxes that of
\* the boxes flagged HAS_CHILD_SOURCES and, unless sources are targets,
\* target_boxes that of the boxes flagged HAS_OWN_TARGETS; a box with several
\* flags is in each of its lists.
AfterClassify ==
    Built({"level_start_fill", "level_start_kernel", "colleagues",
           "list1", "list2", "list3", "list4", "done"})

StrictlyIncreasing(seq) == \A i, j \in DOMAIN seq : i < j => seq[i] < seq[j]

Flagged(flag) == {b \in Boxes : HasFlag(tree, b, flag)}

IsListOfFlagged(seq, flag) == StrictlyIncreasing(seq) /\ Range(seq) = Flagged(flag)

KeyedBySourceBoxes ==
    /\ AfterList1 =>
          /\ Len(neighbor_source_boxes.starts) = Len(source_boxes) + 1
          /\ \A k \in 0..(Len(source_boxes) - 1) :
                Range(get_box_list(neighbor_source_boxes, k))
                    = {S \in Boxes \ {0} : /\ HasFlag(tree, S, BOX_HAS_OWN_SOURCES)
                                            /\ Adjacent(At(source_boxes, k), S)}
    /\ AfterList3 =>
          /\ Len(sep_smaller_nonsiblings.starts) = Len(source_boxes) + 1
          /\ \A k \in 0..(Len(source_boxes) - 1) :
                \A B \in Range(get_box_list(sep_smaller_nonsiblings, k)) :
                    /\ ~Adjacent(At(source_boxes, k), B)
                    /\ Adjacent(At(source_boxes, k), ParentOf(B))

NothingBuilt ==
    /\ partitions = <<(<<>>), (<<>>), (<<>>)>>
    /\ level_start_source_parent_box_nrs = <<>>
    /\ \A l \in {colleagues, neighbor_source_boxes, sep_siblings,
                  sep_smaller_nonsiblings, sep_bigger_nonsiblings} : l = NotBuilt
    /\ objects = NoObjects
    /\ pending = {}
    /\ emitted = NoEmissions

C13_UnprunedRejected ==
    [][~tree._is_pruned =>
          /\ pc = "start"
          /\ pc' = "ValueError"
          /\ NothingBuilt
          /\ NothingBuilt'
          /\ tree' = tree]_vars

C13_Witness ==
    /\ ~tree._is_pruned
    /\ pc = "ValueError"
    /\ tree.nboxes >= 3
    /\ NothingBuilt

\* C14: an unsupported dimension is rejected - on a tree whose dimensions
\* is not 2 or 3 the builder ends in an error: it launches no stage and
\* returns no FMMTraversalInfo.
NoStageLaunched == pc \in {"start", "get_kernel_info", "ValueError", "KeyError", "IndexError"}

C14_UnsupportedDimensionRejected ==
    tree.dimensions \notin {2, 3} => NoStageLaunched

\* what the code does give: the dimensions pyopencl has no vector type for
\* fail in get_kernel_info, every other dimension is built
C14_RejectedWithoutVectorType ==
    /\ tree.dimensions \notin vec_types => NoStageLaunched
    /\ (pc = "done" /\ tree.dimensions \notin {2, 3}) => tree.dimensions = 4

\* C15: the single-box tree (scenario T6) - for the tree of just the root,
\* flagged HAS_OWN_SOURCES and HAS_OWN_TARGETS, the build gives no
\* colleagues, list1(0) = {0}, empty list 2, list 3 and list 4, and no
\* source parent boxes.
IsSingleBoxTree ==
    /\ tree.nboxes = 1
    /\ {BOX_HAS_OWN_SOURCES, BOX_HAS_OWN_TARGETS} \subseteq At(tree.box_flags, 0)

C15_SingleBoxTree ==
    (Done /\ IsSingleBoxTree) =>
        /\ get_box_list(colleagues, 0) = <<>>
        /\ target_boxes = <<0>>
        /\ get_box_list(neighbor_source_boxes, 0) = <<0>>
        /\ sep_siblings.lists = <<>>
        /\ sep_smaller_nonsiblings.lists = <<>>
        /\ sep_bigger_nonsiblings.lists = <<>>
        /\ source_parent_boxes = <<>>

\* what the code does give: list1(0) is empty as well
C15_SingleBoxTreeAllEmpty ==
    (Done /\ IsSingleBoxTree) =>
        /\ get_box_list(colleagues, 0) = <<>>
        /\ target_boxes = <<0>>
        /\ get_box_list(neighbor_source_boxes, 0) = <<>>
        /\ sep_siblings.lists = <<>>
        /\ sep_smaller_nonsiblings.lists = <<>>
        /\ sep_bigger_nonsiblings.lists = <<>>
        /\ source_parent_boxes = <<>>

\* C16: the uniform 2-D depth-2 grid (scenario T1) - every interior
\* level-2 box, one with 8 colleagues, has a list 2 of size
\* 27 - (#colleagues + 1) = 18.
IsUniformGrid ==
    /\ tree.dimensions = 2
    /\ tree.nlevels = 3
    /\ tree.nboxes = 21
    /\ \A B \in Boxes : LevelOf(B) = 2 =>
          {BOX_HAS_OWN_SOURCES, BOX_HAS_OWN_TARGETS} \subseteq At(tree.box_flags, B)

IsInterior(B) == LevelOf(B) = 2 /\ Len(get_box_list(colleagues, B)) = 8

C16_GridList2Size ==
    (AfterList2 /\ IsUniformGrid) => \A B \in Boxes :
        IsInterior(B) =>
            Len(get_box_list(sep_siblings, B))
                = 27 - (Len(get_box_list(colleagues, B)) + 1)

\* C16 as amended: the grid has 16 level-2 boxes, so the list 2 of an
\* interior level-2 box has size 16 - (#colleagues + 1) = 7.
C16_GridList2SizeOfSixteen ==
    (AfterList2 /\ IsUniformGrid) => \A B \in Boxes :
        IsInterior(B) =>
            /\ Len(get_box_list(sep_siblings, B))
                  = 16 - (Len(get_box_list(colleagues, B)) + 1)
            /\ Len(get_box_list(sep_siblings, B)) = 7

C16_Witness ==
    /\ AfterList2
    /\ IsUniformGrid
    /\ Cardinality({B \in Boxes : IsInterior(B)}) = 4
    /\ \E B \in Boxes : IsInterior(B) /\ Len(get_box_list(sep_siblings, B)) = 7

\* C17: the single refined quadrant (scenario T2) - for every level-2
\* leaf T in child 0 and each of the three level-1 leaves L, L is in
\* list1(T) iff L is adjacent to T and in list4(T) iff it is not: each L is
\* in exactly one of the two.
IsRefinedQuadrant ==
    /\ tree.dimensions = 2
    /\ tree.nlevels = 3
    /\ tree.nboxes = 9
    /\ \A m \in 0..3 : ChildOf(tree, m, 0) # 0
    /\ \A B \in Boxes : LevelOf(B) = 2 => ParentOf(B) = ChildOf(tree, 0, 0)
    /\ \A B \in Boxes : ~HasFlag(tree, B, BOX_HAS_CHILDREN) =>
          {BOX_HAS_OWN_SOURCES, BOX_HAS_OWN_TARGETS} \subseteq At(tree.box_flags, B)

Level1Leaves == {L \in Boxes : LevelOf(L) = 1 /\ ~HasFlag(tree, L, BOX_HAS_CHILDREN)}

C17_RefinedQuadrant ==
    (Done /\ IsRefinedQuadrant) =>
        /\ {T \in Boxes : LevelOf(T) = 2} \subseteq Range(target_boxes)
        /\ \A k \in TargetNumbers : LevelOf(At(target_boxes, k)) = 2 =>
              \A L \in Level1Leaves :
                 LET T == At(target_boxes, k)
                     inList1 == L \in Range(get_box_list(neighbor_source_boxes, k))
                     inList4 == L \in Range(get_box_list(sep_bigger_nonsiblings, T))
                 IN /\ inList1 <=> Adjacent(T, L)
                    /\ inList4 <=> ~Adjacent(T, L)
                    /\ inList1 # inList4

C17_Witness ==
    /\ Done
    /\ IsRefinedQuadrant
    /\ Cardinality(Level1Leaves) = 3
    /\ \E k \in TargetNumbers : \E L1, L4 \in Level1Leaves :
          /\ LevelOf(At(target_boxes, k)) = 2
          /\ L1 \in Range(get_box_list(neighbor_source_boxes, k))
          /\ L4 \in Range(get_box_list(sep_bigger_nonsiblings, At(target_boxes, k)))
    /\ \E T \in Boxes : LevelOf(T) = 2 /\ \A L \in Level1Leaves : ~Adjacent(T, L)

\* C18: compressed sparse structure - each of the five lists has a
\* starts of length |keys| + 1 (nboxes + 1 for colleagues, list 2 and
\* list 4, len(target_boxes) + 1 for list 1 and list 3) that begins with 0,
\* does not decrease and ends with len(lists); get_box_list of a key is
\* lists[starts[key]:starts[key+1]], the entries emitted for that key.
IsCompressedSparse(l, nkeys) ==
    /\ Len(l.starts) = nkeys + 1
    /\ At(l.starts, 0) = 0
    /\ \A k \in 0..(nkeys - 1) : At(l.starts, k) <= At(l.starts, k + 1)
    /\ At(l.starts, nkeys) = Len(l.lists)
    /\ l.count = Len(l.lists)
    /\ \A k \in 0..(nkeys - 1) :
          get_box_list(l, k) = [i \in 1..(At(l.starts, k + 1) - At(l.starts, k)) |->
                                   At(l.lists, At(l.starts, k) + i - 1)]

EvStages == {"classify", "level_start", "colleagues", "list1", "list2", "list3", "list4"}

Producers(stage) ==
    CASE stage = "list1" -> {"classify"}
      [] stage = "list2" -> {"colleagues"}
      [] stage = "list3" -> {"classify", "colleagues"}
      [] stage = "list4" -> {"colleagues"}
      [] stage = "level_start" -> {"classify"}
      [] OTHER -> {}

Started(stage) == stage \in DOMAIN events /\ events[stage].status \in {"running", "complete"}

Complete(stage) == stage \in DOMAIN events /\ events[stage].status = "complete"

C19_StageOrdering ==
    /\ \A stage \in EvStages : Started(stage) =>
          \A p \in Producers(stage) : Complete(p)
    /\ (Started("list1") \/ Started("list3")) => objects # NoObjects
    /\ (Started("list2") \/ Started("list3") \/ Started("list4")) => colleagues # NotBuilt
    /\ Complete("list4") => \A stage \in EvStages : Complete(stage)

C19_Witness ==
    /\ pc = "done"
    /\ Complete("colleagues")
    /\ events["list1"].status = "running"
    /\ events["list4"].status = "queued"
    /\ colleagues.lists # <<>>
    /\ sep_siblings = NotBuilt

\* C20: the level stack never overflows - in every walk of the
\* colleagues, list 1 and list 3 kernels on a tree of nlevels levels, a push
\* writes the stacks at an index <= nlevels - 2 and leaves
\* walk_level <= nlevels - 1 < NLEVELS = ceil(nlevels / 10) * 10, and a pop
\* reads an index that was pushed before.
Pushed(w) == {i \in DOMAIN w.box_stack : w.box_stack[i] # Uninit}

C20_LevelStackInBounds ==
    walk # NoWalk =>
        LET w == walk.w IN
        /\ DOMAIN w.box_stack = 0..((((tree.nlevels + 9) \div 10) * 10) - 1)
        /\ DOMAIN w.morton_nr_stack = DOMAIN w.box_stack
        /\ \A i \in Pushed(w) : i <= tree.nlevels - 2
        /\ Pushed(w) = {i \in DOMAIN w.morton_nr_stack : w.morton_nr_stack[i] # Uninit}
        /\ w.walk_level >= 0
        /\ w.walk_level <= tree.nlevels - 1
        /\ w.walk_level \in DOMAIN w.box_stack
        /\ 0..(w.walk_level - 1) \subseteq Pushed(w)
        /\ w.walk_box_id \in Boxes
        /\ w.walk_morton_nr \in 0..NChildren(tree.dimensions)

C20_Witness ==
    /\ walk # NoWalk
    /\ walk.kind = "ended"
    /\ tree.nlevels = MaxLevel + 1
    /\ Pushed(walk.w) = 0..(tree.nlevels - 2)
    /\ walk.w.walk_level = 0
    /\ ~walk.w.continue_walk

\* C21: termination - every per-key routine that has begun finishes.  A
\* stack walk of the colleagues, list 1 or list 3 kernel stops exactly when
\* its start box runs out of children at walk_level 0; the list 4 routine
\* leaves its outer loop at walk_level 0, its inner loop leaves at
\* check_walk_level == walk_level, no loop reads the parent link of the
\* root, and for a box of level 0 or 1 the for loop and the inner loop are
\* never entered and no parent link is read at all.
IsStackWalk == walk # NoWalk /\ "w" \in DOMAIN walk

IsSepBiggerRoutine == walk # NoWalk /\ "s" \in DOMAIN walk

Ended == walk # NoWalk /\ walk.kind = "ended"

StackWalkEndsAtStartBox ==
    IsStackWalk =>
        /\ ~walk.w.continue_walk =>
              /\ walk.w.walk_level = 0
              /\ walk.w.walk_box_id = walk.start_box_id
              /\ walk.w.walk_morton_nr = NChildren(tree.dimensions)
        /\ Ended => ~walk.w.continue_walk

SepBiggerLoopsInOrder ==
    IsSepBiggerRoutine =>
        LET s == walk.s
            box_level == LevelOf(walk.box_id)
        IN /\ s.walk_level \in 0..box_level
           /\ 0 \notin s.parent_reads
           /\ s.at = "return" => s.walk_level = 0
           /\ Ended => s.at = "return"
           /\ s.at \in {"for", "inner"} => s.walk_level \in 1..(box_level - 1)
           /\ s.at = "inner" => s.check_walk_level \in (s.walk_level + 1)..box_level
           /\ box_level <= 1 =>
                 /\ s.at \in {"while", "return"}
                 /\ s.parent_reads = {}
                 /\ s.check_walk_level = Uninit
                 /\ s.current_parent_box_id = walk.box_id
                 /\ s.out = <<>>

C21_Termination ==
    /\ [](StackWalkEndsAtStartBox /\ SepBiggerLoopsInOrder)
    /\ (walk # NoWalk) ~> Ended

\* the list 4 routine of a box of level 1 that has a colleague has returned
C21_Witness ==
    /\ Ended
    /\ IsSepBiggerRoutine
    /\ LevelOf(walk.box_id) = 1
    /\ Colleagues_generate(tree, walk.box_id) # <<>>
    /\ walk.s.walk_level = 0

\* the inner loop of list 4 has gone around more than once and has appended
C21_InnerLoopWitness ==
    /\ Ended
    /\ IsSepBiggerRoutine
    /\ LevelOf(walk.box_id) >= 3
    /\ walk.s.out # <<>>
    /\ walk.s.check_walk_level = 1
    /\ Cardinality(walk.s.parent_reads) >= 2

\* a list 3 walk that descended has ended
C21_StackWalkWitness ==
    /\ Ended
    /\ IsStackWalk
    /\ walk.start_box_id # 0
    /\ walk.w.box_stack[0] = walk.start_box_id

\* C22: the adjacency predicate is geometrically exact on tree boxes - for
\* any two boxes A and B of the tree, of any levels,
\* is_adjacent_or_overlapping(A, B) holds if and only if the closed cubes of
\* A and B share a point, i.e. on every axis the centers are no further
\* apart than half the sum of the sizes; the slack never makes two boxes
\* that do not touch adjacent.
Axes == 0..(tree.dimensions - 1)

SizeOf(b) == tree.root_extent \div (2 ^ LevelOf(b))

AxisDist(A, B, i) == Abs(load_center(tree, A)[i] - load_center(tree, B)[i])

ClosedCubesMeet(A, B) == \A i \in Axes : 2 * AxisDist(A, B, i) <= SizeOf(A) + SizeOf(B)

C22_AdjacencyExact ==
    \A A, B \in Boxes : Adjacent(A, B) <=> ClosedCubesMeet(A, B)

\* the lists are built, and the tree has two boxes of different levels that
\* meet in a corner only, and two of different levels that miss each other
\* by the size of the smaller one
C22_Witness ==
    /\ Done
    /\ \E A, B \in Boxes :
          /\ LevelOf(A) # LevelOf(B)
          /\ \A i \in Axes : 2 * AxisDist(A, B, i) = SizeOf(A) + SizeOf(B)
          /\ Adjacent(A, B)
    /\ \E A, B \in Boxes :
          /\ LevelOf(A) < LevelOf(B)
          /\ \E i \in Axes : 2 * AxisDist(A, B, i) = SizeOf(A) + 3 * SizeOf(B)
          /\ \A i \in Axes : 2 * AxisDist(A, B, i) <= SizeOf(A) + 3 * SizeOf(B)
          /\ ~Adjacent(A, B)

\* C23: the slack term as the glossary has it - for every pair of boxes,
\* is_adjacent_or_overlapping holds if and only if the L-infinity distance
\* of the centers is <= half the sum of the two sizes plus half the LARGER
\* of the two sizes.
MaxDist(A, B) ==
    LET dists == {AxisDist(A, B, i) : i \in Axes}
    IN CHOOSE x \in dists : \A y \in dists : y <= x

C23_SlackOfLargerSize ==
    \A A, B \in Boxes :
        Adjacent(A, B) <=>
            2 * MaxDist(A, B) <= SizeOf(A) + SizeOf(B) + Max2(SizeOf(A), SizeOf(B))

\* what the code computes: the slack is half the SMALLER of the two sizes
C23_SlackOfSmallerSize ==
    \A A, B \in Boxes :
        Adjacent(A, B) <=>
            2 * MaxDist(A, B) <= SizeOf(A) + SizeOf(B) + Min2(SizeOf(A), SizeOf(B))

\* the lists are built, and two boxes of the tree lie further apart than the
\* slack of the smaller allows and no further than that of the larger would
C23_Witness ==
    /\ Done
    /\ \E A, B \in Boxes :
          /\ 2 * MaxDist(A, B) > SizeOf(A) + SizeOf(B) + Min2(SizeOf(A), SizeOf(B))
          /\ 2 * MaxDist(A, B) <= SizeOf(A) + SizeOf(B) + Max2(SizeOf(A), SizeOf(B))
          /\ ~Adjacent(A, B)
          /\ B \in Range(get_box_list(sep_bigger_nonsiblings, A))

\* C24: ancestor monotonicity of adjacency - for every box B and every
\* box K other than the root, if B is adjacent to or overlaps K then B is
\* adjacent to or overlaps the parent of K; so no box below a box that is
\* not adjacent to B is adjacent to B, and a walk that skips the subtree of
\* a non-adjacent box misses no adjacent box.
C24_AncestorMonotonicity ==
    /\ \A B \in Boxes : \A K \in Boxes \ {0} :
          Adjacent(B, K) => Adjacent(B, ParentOf(K))
    /\ \A B \in Boxes : \A K \in Boxes : \A D \in Boxes :
          (K \in AncestorsOrSelf(D) /\ ~Adjacent(B, K)) => ~Adjacent(B, D)
    /\ AfterList1 => \A k \in TargetNumbers : \A S \in Boxes \ {0} :
          S \in Range(get_box_list(neighbor_source_boxes, k))
              => \A K \in AncestorsOrSelf(S) : Adjacent(At(target_boxes, k), K)

\* the lists are built; a list 1 walk has found a box of level 2 outside
\* the branch of its target box, whose parent is adjacent to the target box
\* as well, and the same target box has a non-adjacent box with a child
C24_Witness ==
    /\ Done
    /\ \E k \in TargetNumbers : \E S, K \in Boxes :
          LET T == At(target_boxes, k) IN
          /\ LevelOf(S) = 2
          /\ T \notin AncestorsOrSelf(S) /\ S \notin AncestorsOrSelf(T)
          /\ S \in Range(get_box_list(neighbor_source_boxes, k))
          /\ Adjacent(T, ParentOf(S))
          /\ ~Adjacent(T, K)
          /\ HasFlag(tree, K, BOX_HAS_CHILDREN)

\* C25: list 3 completeness - for every target box T and every box B of
\* a deeper level that is not adjacent to T while its parent is, B is
\* exactly once in the list 3 slice of T, whether or not B carries sources
\* and whether or not B has children.
InList3Premise(T, B) ==
    /\ LevelOf(B) > LevelOf(T)
    /\ ~Adjacent(T, B)
    /\ Adjacent(T, ParentOf(B))

C25_List3Complete ==
    AfterList3 => \A k \in TargetNumbers : \A B \in Boxes :
        InList3Premise(At(target_boxes, k), B)
            => Count(get_box_list(sep_smaller_nonsiblings, k), B) = 1

\* list 3 is built and holds, for one target box, a box that has children
\* and no sources of its own
C25_Witness ==
    /\ AfterList3
    /\ \E k \in TargetNumbers : \E B \in Boxes :
          /\ InList3Premise(At(target_boxes, k), B)
          /\ HasFlag(tree, B, BOX_HAS_CHILDREN)
          /\ ~HasFlag(tree, B, BOX_HAS_OWN_SOURCES)
          /\ Count(get_box_list(sep_smaller_nonsiblings, k), B) = 1

\* list 3 holds a box two levels below its target box
C25_DeeperWitness ==
    /\ AfterList3
    /\ \E k \in TargetNumbers : \E B \in Boxes :
          /\ InList3Premise(At(target_boxes, k), B)
          /\ LevelOf(B) >= LevelOf(At(target_boxes, k)) + 2
          /\ Count(get_box_list(sep_smaller_nonsiblings, k), B) = 1

\* C26: list 3 / list 4 duality - when sources_are_targets holds, for every
\* box A and every box K with sources of its own, K is in the list 4
\* slice of A if and only if A is in the list 3 slice of K, and K is in the
\* list 4 slice of A at most once.
C26_List3List4Duality ==
    (Done /\ tree.sources_are_targets) =>
        \A A \in Boxes : \A k \in TargetNumbers :
            LET K == At(target_boxes, k) IN
            /\ HasFlag(tree, K, BOX_HAS_OWN_SOURCES)
            /\ (K \in Range(get_box_list(sep_bigger_nonsiblings, A))
                  <=> A \in Range(get_box_list(sep_smaller_nonsiblings, k)))
            /\ Count(get_box_list(sep_bigger_nonsiblings, A), K) <= 1

\* every box with sources is a target box, so the boxes K above are all of them
C26_EverySourceBoxIsKeyed ==
    (Done /\ tree.sources_are_targets) =>
        \A K \in Boxes : HasFlag(tree, K, BOX_HAS_OWN_SOURCES) => K \in Range(target_boxes)

\* the lists are built for a tree whose sources are its targets, and a box
\* is in list 4 of a box two levels below it and has that box in its list 3
C26_Witness ==
    /\ Done
    /\ tree.sources_are_targets
    /\ \E A \in Boxes : \E k \in TargetNumbers :
          /\ LevelOf(A) >= LevelOf(At(target_boxes, k)) + 2
          /\ At(target_boxes, k) \in Range(get_box_list(sep_bigger_nonsiblings, A))
          /\ A \in Range(get_box_list(sep_smaller_nonsiblings, k))

\* C27: the root is never a list entry - box 0 is in none of the
\* colleagues, list 1, list 2, list 3 and list 4 lists, whatever its flags:
\* every walk tests only children of its walk box, list 2 takes children of
\* colleagues, list 4 takes colleagues.
BuiltLists ==
    (IF AfterColleagues THEN {colleagues} ELSE {})
    \cup (IF AfterList1 THEN {neighbor_source_boxes} ELSE {})
    \cup (IF AfterList2 THEN {sep_siblings} ELSE {})
    \cup (IF AfterList3 THEN {sep_smaller_nonsiblings} ELSE {})
    \cup (IF Done THEN {sep_bigger_nonsiblings} ELSE {})

C27_RootNeverListed ==
    /\ \A l \in BuiltLists : 0 \notin Range(l.lists)
    /\ \A l \in {colleagues, neighbor_source_boxes, sep_siblings,
                  sep_smaller_nonsiblings, sep_bigger_nonsiblings} :
          l \notin BuiltLists => l = NotBuilt

\* all five lists are built and not empty, and the root has sources of its
\* own and is a target box
C27_Witness ==
    /\ Done
    /\ HasFlag(tree, 0, BOX_HAS_OWN_SOURCES)
    /\ 0 \in Range(target_boxes)
    /\ \A l \in {colleagues, neighbor_source_boxes, sep_siblings,
                  sep_smaller_nonsiblings, sep_bigger_nonsiblings} : l.lists # <<>>

\* C28: multipoles of boxes of level 0 and 1 are never consumed - every
\* entry of every list 2 slice and of every list 3 slice is a box of level
\* >= 2; so after coarsen_multipoles, which merges children into the source
\* parent boxes of levels nlevels-1 down to 2, the multipole of every box
\* that occurs in list 2 or list 3 holds, once each, the sources of the box
\* and of all boxes below it.
Coarsened == mpoles.stage = "coarsened"

\* the sources of M and of the boxes below M, once each
SubtreeSources(M) ==
    [src \in Boxes |->
        IF M \in AncestorsOrSelf(src) /\ HasFlag(tree, src, BOX_HAS_OWN_SOURCES)
            THEN 1 ELSE 0]

ConsumedMultipoles == Range(sep_siblings.lists) \cup Range(sep_smaller_nonsiblings.lists)

====
